---- MODULE Spec2Model ----
(***************************************************************************)
(* A model of the gitlab-triage rule engine: the Condition Evaluator       *)
(* (PolicyEngine), the limit step (applyLimits), the rule processor        *)
(* (PlatinumTriage.processRule) and the Action Executor (ActionExecutor).  *)
(*                                                                         *)
(* Text (label names, required-label entries) is a sequence of one-        *)
(* character strings, so that includes('{'), the regular expression of     *)
(* stringToArray, split(',') and trim() are computed and not assumed.      *)
(* A JavaScript value an evaluator returns is a record [t, settled, v]:    *)
(* t = "bool" for the boolean v, t = "promise" for the Promise an async    *)
(* function returns (settled says whether it resolves, with v, or is       *)
(* rejected), t = "throw" for an exception.                                *)
(***************************************************************************)
EXTENDS Integers, Sequences, FiniteSets, TLC

\* ------------------------------------------------------------- bounds
\* longest resource list handed to applyLimits / filterResources / execute
MaxResources == 2
\* created_at values are 1..MaxTime
MaxTime == 2
\* largest N of most_recent N / oldest N
MaxLimit == 2
\* longest required-labels list of a labels condition
MaxRequired == 2
\* most condition kinds in one condition map
MaxConds == 2
\* most action kinds in one action map
MaxActions == 2
\* largest interval of a date condition
MaxInterval == 7

\* ------------------------------------------------------------- text
Min(a, b) == IF a <= b THEN a ELSE b

Range(s) == {s[i] : i \in 1..Len(s)}

\* Array.prototype.includes on an array of strings
Includes(arr, x) == \E i \in 1..Len(arr) : arr[i] = x

\* every sequence over S of length lo..hi
SeqsUpTo(S, lo, hi) == UNION {[1..n -> S] : n \in lo..hi}

\* the sequences of SeqsUpTo without a repeated element
DistinctSeqs(S, lo, hi) ==
    {s \in SeqsUpTo(S, lo, hi) : \A i, j \in 1..Len(s) : i # j => s[i] # s[j]}

lblBug == <<"b", "u", "g">>
lblUrgent == <<"u", "r", "g">>
lblPa == <<"p", "a">>
lblPb == <<"p", "b">>
lblQ == <<"q">>
\* the sentinels of a labels condition
strNone == <<"N", "o", "n", "e">>
strAny == <<"A", "n", "y">>
\* OR-group entries: "p{a,b}", "p {a, b}" (blanks to trim), "{a}" (no prefix)
grpP == <<"p", "{", "a", ",", "b", "}">>
grpPBlank == <<"p", " ", "{", "a", ",", " ", "b", "}">>
grpBare == <<"{", "a", "}">>

\* ------------------------------------------------------------- resources
Resource(id, state, labels, created_at, author) ==
    [id |-> id, state |-> state, labels |-> labels,
     created_at |-> created_at, author |-> author]

VARIABLES
    limInput,        \* the array the caller passes to applyLimits
    limLimits,       \* the limits object of the call
    limResult,       \* what applyLimits returned
    limPc,           \* "idle" before the call, "returned" after it
    customFilters,   \* PolicyEngine.customFilters: registered name -> predicate
    peCall,          \* the last call made on the PolicyEngine and its result
    extensionLoaded, \* ActionExecutor.extensionLoaded: the registered aliases
    exec,            \* the frame of the call of ActionExecutor.execute
    gitlab,          \* the remote service: its records and the writes received
    ruleCall,        \* the call of PlatinumTriage.processRule
    summaryCall,     \* the call of ActionExecutor.executeSummary
    pairDry,         \* a dry-run executor and its remote, next to
    pairLive,        \* a live executor and its remote, on the same inputs
    framework,       \* the CommandFramework object: command and #tokens
    cmdCall,         \* the last call made on the CommandFramework and its result
    matchers,        \* two CommandFramework objects built from one pattern
    copies,          \* the arrays getTokens returned for the first of them
    callLog,         \* the calls of match and handleInput made on the first
    rulesRun,        \* a call of PlatinumTriage.processResourceType in progress
    rendering,       \* a call of unmarkComment and what it returned
    hookCall,        \* a call of executeHookActions in progress
    projectCall,     \* a call of processProject in progress
    summaryRun,      \* a call of processSummaryPolicies in progress
    executor,        \* an ActionExecutor with its extension cache over its life
    manager          \* a PlatinumTriageHookManager and the event it handles

varsLimits == <<limInput, limLimits, limResult, limPc>>
varsCond == <<customFilters, peCall>>
varsExec == <<extensionLoaded, exec, gitlab, ruleCall, summaryCall>>
varsPair == <<pairDry, pairLive>>
varsCmd == <<framework, cmdCall>>
varsTok == <<matchers, copies, callLog>>
varsBase == <<varsLimits, varsCond, varsExec, varsPair, varsCmd>>
varsRun == <<rulesRun>>
varsComment == <<rendering>>
varsHook == <<hookCall>>
varsProject == <<projectCall>>
varsSummary == <<summaryRun>>
varsCache == <<executor>>
varsManager == <<manager>>
varsLast == <<varsCache, varsManager>>
varsLate == <<varsComment, varsHook, varsProject, varsSummary, varsLast>>
varsMore == <<varsTok, varsRun, varsLate>>
vars == <<varsLimits, varsCond, varsExec, varsPair, varsCmd, varsMore>>

\* ------------------------------------------------------------- applyLimits
\* the comparator of sort(): < 0 puts a before b
compareCreated(a, b, descending) ==
    IF descending THEN b.created_at - a.created_at
    ELSE a.created_at - b.created_at

\* Array.prototype.sort is stable: x goes behind every element it does not
\* strictly precede
RECURSIVE insertStable(_, _, _)
insertStable(x, sorted, descending) ==
    IF sorted = <<>> THEN <<x>>
    ELSE IF compareCreated(x, Head(sorted), descending) < 0
         THEN <<x>> \o sorted
         ELSE <<Head(sorted)>> \o insertStable(x, Tail(sorted), descending)

RECURSIVE sortByCreated(_, _)
sortByCreated(arr, descending) ==
    IF arr = <<>> THEN <<>>
    ELSE insertStable(arr[Len(arr)],
                      sortByCreated(SubSeq(arr, 1, Len(arr) - 1), descending),
                      descending)

\* Array.prototype.slice(0, n)
slice0(arr, n) == SubSeq(arr, 1, Min(n, Len(arr)))

\* a limits object: kind "absent" (no limits), "empty" ({}), "most_recent",
\* "oldest"; n is the count. The validator admits one kind and n >= 1.
LimitConfigs ==
    {[kind |-> "absent", n |-> 0], [kind |-> "empty", n |-> 0]}
    \cup {[kind |-> k, n |-> n] : k \in {"most_recent", "oldest"}, n \in 1..MaxLimit}

\* a call that sorts the caller's array itself instead of a copy
applyLimitsInPlace(resources, limits) ==
    IF limits.kind = "most_recent"
    THEN [result |-> slice0(sortByCreated(resources, TRUE), limits.n),
          input |-> sortByCreated(resources, TRUE)]
    ELSE IF limits.kind = "oldest"
    THEN [result |-> slice0(sortByCreated(resources, FALSE), limits.n),
          input |-> sortByCreated(resources, FALSE)]
    ELSE [result |-> resources, input |-> resources]

\* a call that forgets to truncate
applyLimitsNoSlice(resources, limits) ==
    IF limits.kind = "most_recent"
    THEN [result |-> sortByCreated(resources, TRUE), input |-> resources]
    ELSE IF limits.kind = "oldest"
    THEN [result |-> sortByCreated(resources, FALSE), input |-> resources]
    ELSE [result |-> resources, input |-> resources]

\* applyLimits(resources, limits): result is the returned array, input the
\* caller's array after the call
applyLimits(resources, limits) ==
    IF limits.kind = "absent" THEN [result |-> resources, input |-> resources]
    ELSE LET sortedResources == resources   \* [...resources], a copy
         IN IF limits.kind = "most_recent"
            THEN [result |-> slice0(sortByCreated(sortedResources, TRUE), limits.n),
                  input |-> resources]
            ELSE IF limits.kind = "oldest"
            THEN [result |-> slice0(sortByCreated(sortedResources, FALSE), limits.n),
                  input |-> resources]
            ELSE [result |-> resources, input |-> resources]

\* resource lists with ids 1..n in any order of creation times
LimitInputs ==
    UNION {{[i \in 1..n |-> Resource(i, "opened", <<>>, t[i], "alice")] :
              t \in [1..n -> 1..MaxTime]} : n \in 0..(MaxResources + 1)}

InitLimits ==
    /\ limInput \in LimitInputs
    /\ limLimits \in LimitConfigs
    /\ limResult = <<>>
    /\ limPc = "idle"

ApplyLimits ==
    /\ limPc = "idle"
    /\ LET r == applyLimits(limInput, limLimits)
       IN /\ limResult' = r.result
          /\ limInput' = r.input
    /\ limPc' = "returned"
    /\ UNCHANGED <<limLimits, varsCond, varsExec, varsPair, varsCmd, varsMore>>

NextLimits == ApplyLimits

IdleLimits ==
    /\ limInput = <<>>
    /\ limLimits = [kind |-> "absent", n |-> 0]
    /\ limResult = <<>>
    /\ limPc = "off"

\* ------------------------------------------------------------- values
BoolVal(b) == [t |-> "bool", settled |-> "none", v |-> b]
\* the Promise an async function returns: resolved with v, or rejected
Resolved(b) == [t |-> "promise", settled |-> "resolved", v |-> b]
Rejected == [t |-> "promise", settled |-> "rejected", v |-> FALSE]
\* an exception that leaves the function called
Thrown == [t |-> "throw", settled |-> "none", v |-> FALSE]

\* JavaScript truthiness: a Promise is an object, and every object is truthy
Truthy(val) == IF val.t = "bool" THEN val.v ELSE val.t = "promise"

\* ------------------------------------------------------------- labels condition
\* String.prototype.trim, blanks only
RECURSIVE trimLeft(_)
trimLeft(s) == IF s # <<>> /\ Head(s) = " " THEN trimLeft(Tail(s)) ELSE s

RECURSIVE trimRight(_)
trimRight(s) ==
    IF s # <<>> /\ s[Len(s)] = " " THEN trimRight(SubSeq(s, 1, Len(s) - 1)) ELSE s

trim(s) == trimRight(trimLeft(s))

\* position of the first c in s at or after i, 0 when there is none
RECURSIVE indexFrom(_, _, _)
indexFrom(s, c, i) ==
    IF i > Len(s) THEN 0
    ELSE IF s[i] = c THEN i ELSE indexFrom(s, c, i + 1)

\* String.prototype.split(',')
RECURSIVE split(_)
split(s) ==
    LET k == indexFrom(s, ",", 1)
    IN IF k = 0 THEN <<s>>
       ELSE <<SubSeq(s, 1, k - 1)>> \o split(SubSeq(s, k + 1, Len(s)))

\* str.match(/^(.+?)([{])([^}]+)(})/): the lazy group 1 ends before the first
\* "{" (not at position 1) that is followed by at least one character other
\* than "}" and then a "}". open = 0 when there is no match.
matchGroup(str) ==
    LET opens == {i \in 2..Len(str) :
                     str[i] = "{" /\ indexFrom(str, "}", i + 1) >= i + 2}
        open == IF opens = {} THEN 0
                ELSE CHOOSE i \in opens : \A j \in opens : i <= j
    IN [open |-> open,
        close |-> IF open = 0 THEN 0 ELSE indexFrom(str, "}", open + 1)]

\* stringToArray(str): "prefix{a,b}" gives <<"prefixa", "prefixb">>
stringToArray(str) ==
    LET match == matchGroup(str)
    IN IF match.open = 0 THEN <<>>
       ELSE LET key == trim(SubSeq(str, 1, match.open - 1))
                separator == <<>>    \* match[2] is always "{"
                parts == split(SubSeq(str, match.open + 1, match.close - 1))
                values == [i \in 1..Len(parts) |-> trim(parts[i])]
            IN [i \in 1..Len(values) |-> key \o separator \o values[i]]

\* the filter callback (x => !x === label) of line 264: it is (!x) === label,
\* a boolean strictly compared with a string, false for every x and label
notXStrictEqualsLabel(x, label) == FALSE

\* one pass of the for loop over orLabels, from index i, with the current
\* value of requiredLabels; the result is the value returned
RECURSIVE orLabelsLoop(_, _, _, _)
orLabelsLoop(orLabels, i, requiredLabels, labelNames) ==
    IF i > Len(orLabels)
    THEN \A k \in 1..Len(requiredLabels) : Includes(labelNames, requiredLabels[k])
    ELSE LET label == orLabels[i]
             eitherLabels == stringToArray(label)
         IN IF ~(\E k \in 1..Len(eitherLabels) : Includes(labelNames, eitherLabels[k]))
            THEN FALSE
            ELSE orLabelsLoop(orLabels, i + 1,
                     SelectSeq(requiredLabels,
                               LAMBDA x : notXStrictEqualsLabel(x, label)),
                     labelNames)

\* a labels condition that looks for Any before it looks for None
evaluateLabelsConditionAnyFirst(resource, requiredLabels) ==
    LET labelNames == resource.labels
    IN IF Includes(requiredLabels, strAny) THEN Len(labelNames) > 0
       ELSE IF Includes(requiredLabels, strNone) THEN Len(labelNames) = 0
       ELSE LET orLabels == SelectSeq(requiredLabels, LAMBDA x : Includes(x, "{"))
            IN orLabelsLoop(orLabels, 1, requiredLabels, labelNames)

\* evaluateLabelsCondition(resource, requiredLabels), requiredLabels an array
evaluateLabelsCondition(resource, requiredLabels) ==
    LET labelNames == resource.labels
    IN IF Includes(requiredLabels, strNone) THEN Len(labelNames) = 0
       ELSE IF Includes(requiredLabels, strAny) THEN Len(labelNames) > 0
       ELSE LET orLabels == SelectSeq(requiredLabels, LAMBDA x : Includes(x, "{"))
            IN orLabelsLoop(orLabels, 1, requiredLabels, labelNames)

evaluateForbiddenLabelsCondition(resource, forbiddenLabels) ==
    ~(\E k \in 1..Len(forbiddenLabels) : Includes(resource.labels, forbiddenLabels[k]))

evaluateNoAdditionalLabelsCondition(resource, shouldHaveNoAdditional) ==
    IF ~shouldHaveNoAdditional THEN TRUE ELSE TRUE

evaluateStateCondition(resource, expectedState) == resource.state = expectedState

evaluateAuthorUsernameCondition(resource, expectedUsername) ==
    resource.author = expectedUsername

\* the members GroupMembers.show finds; for every other user the call fails
GroupMembers == {"alice"}

\* async evaluateAuthorMemberCondition(resource, parameters): the value is the
\* Promise the async function returns. "" and 0 are the missing parameters.
evaluateAuthorMemberCondition(resource, parameters) ==
    IF parameters.source = "" \/ parameters.source_id = 0 \/ parameters.condition = ""
    THEN Resolved(FALSE)
    ELSE IF parameters.source = "group"
         THEN Resolved(resource.author \in GroupMembers)
         ELSE Rejected

\* ------------------------------------------------------------- date condition
\* Timestamps count whole hours. Now is what new Date() reads during the run.
Now == 24 * 400

\* integer division that drops the fraction, also of a negative quotient
TruncDiv(a, b) == IF a >= 0 THEN a \div b ELSE -((-a) \div b)

\* integer division to the nearest whole number
RoundDiv(a, b) == IF a >= 0 THEN (2 * a + b) \div (2 * b) ELSE -((2 * (-a) + b) \div (2 * b))

IntervalTypes == {"minutes", "hours", "days", "weeks", "months", "years"}

\* a difference that rounds to the nearest whole unit
differenceInRounded(interval_type, dateLeft, dateRight) ==
    LET diff == dateLeft - dateRight
    IN CASE interval_type = "minutes" -> diff * 60
         [] interval_type = "hours" -> diff
         [] interval_type = "days" -> RoundDiv(diff, 24)
         [] interval_type = "weeks" -> RoundDiv(diff, 24 * 7)
         [] interval_type = "months" -> RoundDiv(diff, 24 * 30)
         [] interval_type = "years" -> RoundDiv(diff, 24 * 365)

\* differenceInMinutes ... differenceInYears of date-fns: the number of full
\* units between the dates. A month is taken as 30 days and a year as 365
\* days; the calendar the library walks for these two is not modelled.
differenceIn(interval_type, dateLeft, dateRight) ==
    LET diff == dateLeft - dateRight
    IN CASE interval_type = "minutes" -> diff * 60
         [] interval_type = "hours" -> diff
         [] interval_type = "days" -> TruncDiv(diff, 24)
         [] interval_type = "weeks" -> TruncDiv(diff, 24 * 7)
         [] interval_type = "months" -> TruncDiv(diff, 24 * 30)
         [] interval_type = "years" -> TruncDiv(diff, 24 * 365)

\* evaluateDateCondition(resource, dateConfig): an attribute the resource
\* does not carry reads undefined
evaluateDateCondition(resource, dateConfig) ==
    IF dateConfig.attribute \notin DOMAIN resource THEN FALSE
    ELSE IF dateConfig.interval_type \notin IntervalTypes THEN FALSE
    ELSE LET timeDifference == differenceIn(dateConfig.interval_type, Now,
                                            resource[dateConfig.attribute])
         IN CASE dateConfig.condition = "older_than" ->
                    timeDifference >= dateConfig.interval
              [] dateConfig.condition = "newer_than" ->
                    timeDifference <= dateConfig.interval
              [] OTHER -> FALSE

\* ------------------------------------------------------------- js condition
\* the resource with a references object, as the issue and merge request
\* records of the remote carry it
WithReferences(resource) ==
    [f \in DOMAIN resource \cup {"references"} |->
        IF f = "references" THEN [full |-> "group/project#1"] ELSE resource[f]]

\* new vm.Script(jsExpression).runInContext(sandbox) for the expressions the
\* inputs draw from: threw when compiling or running raises
runInContext(jsExpression, context) ==
    CASE jsExpression = "state === 'opened'" ->
            [threw |-> FALSE, value |-> context.state = "opened"]
      [] jsExpression = "labels.length > 0" ->
            [threw |-> FALSE, value |-> Len(context.labels) > 0]
      [] jsExpression = "full_reference !== ''" ->
            [threw |-> FALSE, value |-> context.full_reference # ""]
      [] jsExpression = "state ===" ->           \* SyntaxError
            [threw |-> TRUE, value |-> FALSE]
      [] jsExpression = "missing.field" ->       \* ReferenceError
            [threw |-> TRUE, value |-> FALSE]

\* evaluateJavaScriptCondition(resource, jsExpression): the context is built
\* before the try block, and resource.references.full raises a TypeError
\* when the resource has no references
evaluateJavaScriptCondition(resource, jsExpression) ==
    IF "references" \notin DOMAIN resource THEN Thrown
    ELSE LET context == [state |-> resource.state, labels |-> resource.labels,
                         author |-> resource.author,
                         full_reference |-> resource.references.full]
             ran == runInContext(jsExpression, context)
         IN IF ran.threw THEN BoolVal(FALSE) ELSE BoolVal(ran.value)

\* ------------------------------------------------------------- evaluateCondition
\* the case labels of the switch of evaluateCondition
BuiltinKinds ==
    {"date", "state", "labels", "forbidden_labels", "no_additional_labels",
     "author_username", "milestone", "votes", "draft", "source_branch",
     "target_branch", "weight", "health_status", "issue_type", "discussions",
     "js", "author_member"}

\* caller-supplied predicates (resource, value) => boolean
FilterFns == {"fnIsOpened", "fnUnlabelled"}

\* customFilter(resource, conditionValue)
callFilter(fn, resource, conditionValue) ==
    IF fn = "fnIsOpened" THEN BoolVal(resource.state = "opened")
    ELSE BoolVal(Len(resource.labels) = 0)

\* an evaluateCondition that asks the custom registry before the switch
evaluateConditionCustomFirst(resource, conditionType, conditionValue, filters) ==
    IF conditionType \in DOMAIN filters
    THEN callFilter(filters[conditionType], resource, conditionValue)
    ELSE IF conditionType = "date"
         THEN BoolVal(evaluateDateCondition(resource, conditionValue))
    ELSE IF conditionType = "state"
         THEN BoolVal(evaluateStateCondition(resource, conditionValue))
    ELSE IF conditionType = "labels"
         THEN BoolVal(evaluateLabelsCondition(resource, conditionValue))
    ELSE IF conditionType = "forbidden_labels"
         THEN BoolVal(evaluateForbiddenLabelsCondition(resource, conditionValue))
    ELSE IF conditionType = "no_additional_labels"
         THEN BoolVal(evaluateNoAdditionalLabelsCondition(resource, conditionValue))
    ELSE IF conditionType = "author_username"
         THEN BoolVal(evaluateAuthorUsernameCondition(resource, conditionValue))
    ELSE IF conditionType = "js"
         THEN evaluateJavaScriptCondition(resource, conditionValue)
    ELSE IF conditionType = "author_member"
         THEN evaluateAuthorMemberCondition(resource, conditionValue)
    ELSE BoolVal(FALSE)

\* evaluateCondition(resource, conditionType, conditionValue); filters is
\* this.customFilters, a function from the registered names to predicates.
\* The arms are those of the condition kinds the inputs below draw from.
evaluateCondition(resource, conditionType, conditionValue, filters) ==
    CASE conditionType = "date" ->
            BoolVal(evaluateDateCondition(resource, conditionValue))
      [] conditionType = "state" ->
            BoolVal(evaluateStateCondition(resource, conditionValue))
      [] conditionType = "labels" ->
            BoolVal(evaluateLabelsCondition(resource, conditionValue))
      [] conditionType = "forbidden_labels" ->
            BoolVal(evaluateForbiddenLabelsCondition(resource, conditionValue))
      [] conditionType = "no_additional_labels" ->
            BoolVal(evaluateNoAdditionalLabelsCondition(resource, conditionValue))
      [] conditionType = "author_username" ->
            BoolVal(evaluateAuthorUsernameCondition(resource, conditionValue))
      [] conditionType = "js" ->
            evaluateJavaScriptCondition(resource, conditionValue)
      [] conditionType = "author_member" ->
            evaluateAuthorMemberCondition(resource, conditionValue)
      [] OTHER ->
            IF conditionType \in DOMAIN filters
            THEN callFilter(filters[conditionType], resource, conditionValue)
            ELSE BoolVal(FALSE)

\* evaluateConditions(resource, conditions): conditions is the array
\* Object.entries gives, <<conditionType, conditionValue>> in key order
RECURSIVE evaluateConditionsFrom(_, _, _, _)
evaluateConditionsFrom(resource, conditions, i, filters) ==
    IF i > Len(conditions) THEN BoolVal(TRUE)
    ELSE LET val == evaluateCondition(resource, conditions[i][1],
                                      conditions[i][2], filters)
         IN IF val.t = "throw" THEN Thrown
            ELSE IF ~Truthy(val) THEN BoolVal(FALSE)
            ELSE evaluateConditionsFrom(resource, conditions, i + 1, filters)

evaluateConditions(resource, conditions, filters) ==
    evaluateConditionsFrom(resource, conditions, 1, filters)

\* filterResources(resources, conditions): threw when a callback threw,
\* else list is the array returned
filterResources(resources, conditions, filters) ==
    IF Len(conditions) = 0 THEN [threw |-> FALSE, list |-> resources]
    ELSE IF \E i \in 1..Len(resources) :
               evaluateConditions(resources[i], conditions, filters).t = "throw"
         THEN [threw |-> TRUE, list |-> <<>>]
         ELSE [threw |-> FALSE,
               list |-> SelectSeq(resources,
                          LAMBDA resource :
                            Truthy(evaluateConditions(resource, conditions, filters)))]

\* ------------------------------------------------------------- condition inputs
CondResources ==
    {Resource(1, "opened", <<lblPa>>, 1, "alice"),
     Resource(2, "closed", <<>>, 1, "bob"),
     Resource(3, "opened", <<lblPa, lblQ>>, 2, "bob"),
     Resource(4, "opened", <<lblPb, lblBug>>, 2, "alice")}

RequiredEntries == {lblQ, lblPa, grpP, grpPBlank, grpBare, strNone, strAny}

RequiredLists == SeqsUpTo(RequiredEntries, 0, MaxRequired)

AuthorMemberParams ==
    {[source |-> "group", source_id |-> 7, condition |-> "member_of"],
     [source |-> "project", source_id |-> 7, condition |-> "member_of"],
     [source |-> "group", source_id |-> 0, condition |-> "member_of"]}

\* the names a predicate is registered under: a built-in kind and two others
CustomNames == {"state", "is_stale"}

\* the configuration values of one condition kind
CondValues(kind) ==
    CASE kind = "state" -> {"opened", "closed"}
      [] kind = "labels" -> RequiredLists
      [] kind = "forbidden_labels" -> {<<lblQ>>, <<lblBug, lblPa>>}
      [] kind = "no_additional_labels" -> {TRUE, FALSE}
      [] kind = "author_username" -> {"alice", "bob"}
      [] kind = "author_member" -> AuthorMemberParams
      [] OTHER -> {"on"}

CondKinds ==
    {"state", "labels", "forbidden_labels", "no_additional_labels",
     "author_username", "author_member", "is_stale", "is_triaged"}
\* ("is_triaged" is never registered)

\* the entries condition maps are built from: one or two values a kind
MapEntries ==
    {<<"state", "opened">>,
     <<"labels", <<lblPa>>>>, <<"labels", <<grpP, lblQ>>>>,
     <<"forbidden_labels", <<lblQ>>>>,
     <<"author_username", "alice">>,
     <<"is_stale", "on">>}
    \cup {<<"author_member", p>> :
             p \in {q \in AuthorMemberParams : q.source_id # 0}}

CondMaps ==
    {m \in SeqsUpTo(MapEntries, 0, MaxConds) :
        \A i, j \in 1..Len(m) : i # j => m[i][1] # m[j][1]}

CondResourceLists == DistinctSeqs(CondResources, 0, MaxResources)

\* ages in hours of the resources a date condition is evaluated on: created
\* in the future, just now, and around whole days, weeks, months and years
DateAges ==
    {-30, 0, 5, 36, 6 * 24, 6 * 24 + 23, 7 * 24, 5 * 24 * 7,
     5 * 24 * 30 + 700, 5 * 24 * 365}

\* resources created so long ago; none carries merged_at
DateResources ==
    {Resource(100 + a, "opened", <<>>, Now - a, "alice") : a \in DateAges}

\* resources a js condition is evaluated on, with and without references
JsResources == CondResources \cup {WithReferences(r) : r \in CondResources}

\* expressions that evaluate, and two whose evaluation raises
JsFailing == {"state ===", "missing.field"}

JsExpressions ==
    {"state === 'opened'", "labels.length > 0", "full_reference !== ''"} \cup JsFailing

DateConfigs ==
    [attribute : {"created_at", "merged_at"},
     condition : {"older_than", "newer_than", "between"},
     interval_type : IntervalTypes \cup {"decades"},
     interval : 1..MaxInterval]

NoCall == [op |-> "none"]

InitCond ==
    /\ customFilters = <<>>
    /\ peCall = NoCall

\* registerCustomFilter(name, filterFn): Map.set, also over a built-in name
RegisterCustomFilter(name, fn) ==
    /\ peCall = NoCall
    /\ customFilters' = [n \in DOMAIN customFilters \cup {name} |->
                            IF n = name THEN fn ELSE customFilters[n]]
    /\ UNCHANGED <<peCall, varsLimits, varsExec, varsPair, varsCmd, varsMore>>

EvaluateCondition(resource, kind, value) ==
    /\ peCall = NoCall
    /\ peCall' = [op |-> "evaluateCondition", resource |-> resource,
                  kind |-> kind, value |-> value,
                  result |-> evaluateCondition(resource, kind, value, customFilters)]
    /\ UNCHANGED <<customFilters, varsLimits, varsExec, varsPair, varsCmd, varsMore>>

EvaluateConditions(resource, conditions) ==
    /\ peCall = NoCall
    /\ peCall' = [op |-> "evaluateConditions", resource |-> resource,
                  conditions |-> conditions,
                  result |-> evaluateConditions(resource, conditions, customFilters)]
    /\ UNCHANGED <<customFilters, varsLimits, varsExec, varsPair, varsCmd, varsMore>>

FilterResources(resources, conditions) ==
    /\ peCall = NoCall
    /\ peCall' = [op |-> "filterResources", resources |-> resources,
                  conditions |-> conditions,
                  result |-> filterResources(resources, conditions, customFilters)]
    /\ UNCHANGED <<customFilters, varsLimits, varsExec, varsPair, varsCmd, varsMore>>

\* the call returns and the caller drops the result
Return ==
    /\ peCall # NoCall
    /\ peCall' = NoCall
    /\ UNCHANGED <<customFilters, varsLimits, varsExec, varsPair, varsCmd, varsMore>>

\* a call is made when none is in progress
NextCond ==
    \/ Return
    \/ /\ peCall = NoCall
       /\ \E name \in CustomNames, fn \in FilterFns : RegisterCustomFilter(name, fn)
    \/ /\ peCall = NoCall
       /\ \E resource \in CondResources, kind \in CondKinds :
             \E value \in CondValues(kind) : EvaluateCondition(resource, kind, value)
    \/ /\ peCall = NoCall
       /\ \E resource \in DateResources, dateConfig \in DateConfigs :
             EvaluateCondition(resource, "date", dateConfig)
    \/ /\ peCall = NoCall
       /\ \E resource \in JsResources, jsExpression \in JsExpressions :
             EvaluateCondition(resource, "js", jsExpression)
    \/ /\ peCall = NoCall
       /\ \E resource \in CondResources, conditions \in CondMaps :
             EvaluateConditions(resource, conditions)
    \/ /\ peCall = NoCall
       /\ \E resources \in CondResourceLists, conditions \in CondMaps :
             FilterResources(resources, conditions)

\* ------------------------------------------------------------- the remote service
Ids(arr) == {arr[i].id : i \in 1..Len(arr)}

\* a write received: op is the client method, field the attribute sent
Call(op, id, field, labels, value) ==
    [op |-> op, id |-> id, field |-> field, labels |-> labels, value |-> value]

\* store holds the records, calls the writes received, rejects the ids of
\* the records whose writes the remote answers with an error
RemoteIdle == [store |-> <<>>, calls |-> <<>>, rejects |-> {}]

\* the remote holding the records of the resources loaded from it
RemoteOf(resources) ==
    [store |-> [id \in Ids(resources) |->
                  CHOOSE r \in Range(resources) : r.id = id],
     calls |-> <<>>, rejects |-> {}]

\* the same remote answering with an error to every write on the ids rejects
RemoteRejecting(resources, rejects) ==
    [RemoteOf(resources) EXCEPT !.rejects = rejects]

\* the remote applies a write to its record and answers with the record:
\* an edit replaces the labels sent, a state event or a merge moves the state
remoteWrite(gl, op, id, field, labels, value) ==
    LET old == gl.store[id]
        new == IF op = "edit" /\ field = "labels" THEN [old EXCEPT !.labels = labels]
               ELSE IF op = "edit" /\ field = "stateEvent" /\ value = "close"
                    THEN [old EXCEPT !.state = "closed"]
               ELSE IF op = "edit" /\ field = "stateEvent" /\ value = "reopen"
                    THEN [old EXCEPT !.state = "opened"]
               ELSE IF op = "merge" THEN [old EXCEPT !.state = "merged"]
               ELSE old
    IN [gitlab |-> [gl EXCEPT !.store = [gl.store EXCEPT ![id] = new],
                              !.calls = Append(gl.calls, Call(op, id, field, labels, value))],
        record |-> new]

\* ------------------------------------------------------------- ActionExecutor
\* what an action function leaves: ret the value returned, obj the object
\* passed in after the call (addLabels and removeLabels assign its labels),
\* fresh when ret is another object than obj, gitlab the remote after the
\* call, threw when the call raised instead of returning
Outcome(ret, obj, fresh, gl, threw) ==
    [ret |-> ret, obj |-> obj, fresh |-> fresh, gitlab |-> gl, threw |-> threw]

\* getApiClient / getNotesApiClient: both raise for any other resource type
clientSupports(resourceType) == resourceType \in {"issue", "merge_request"}

\* an addLabels that edits the remote whatever dryRun says
addLabelsIgnoringDryRun(resource, labels, resourceType, dryRun, gl) ==
    LET local == [resource EXCEPT !.labels = resource.labels \o labels]
    IN IF ~clientSupports(resourceType) THEN Outcome(local, local, FALSE, gl, TRUE)
       ELSE LET r == remoteWrite(gl, "edit", local.id, "labels", local.labels, "")
            IN Outcome(r.record, local, TRUE, r.gitlab, FALSE)

\* a removeLabels that sends the labels removed instead of the labels left
removeLabelsSendingDelta(resource, labels, resourceType, dryRun, gl) ==
    LET local == [resource EXCEPT
                    !.labels = SelectSeq(resource.labels, LAMBDA x : ~Includes(labels, x))]
    IN IF ~dryRun
       THEN IF ~clientSupports(resourceType)
            THEN Outcome(local, local, FALSE, gl, TRUE)
            ELSE LET r == remoteWrite(gl, "edit", local.id, "labels", labels, "")
                 IN Outcome(r.record, local, TRUE, r.gitlab, FALSE)
       ELSE Outcome(local, local, FALSE, gl, FALSE)

addLabels(resource, labels, resourceType, dryRun, gl) ==
    LET local == [resource EXCEPT !.labels = resource.labels \o labels]
    IN IF ~dryRun
       THEN IF ~clientSupports(resourceType)
            THEN Outcome(local, local, FALSE, gl, TRUE)
            ELSE LET r == remoteWrite(gl, "edit", local.id, "labels", local.labels, "")
                 IN Outcome(r.record, local, TRUE, r.gitlab, FALSE)
       ELSE Outcome(local, local, FALSE, gl, FALSE)

removeLabels(resource, labels, resourceType, dryRun, gl) ==
    LET local == [resource EXCEPT
                    !.labels = SelectSeq(resource.labels, LAMBDA x : ~Includes(labels, x))]
    IN IF ~dryRun
       THEN IF ~clientSupports(resourceType)
            THEN Outcome(local, local, FALSE, gl, TRUE)
            ELSE LET r == remoteWrite(gl, "edit", local.id, "labels", local.labels, "")
                 IN Outcome(r.record, local, TRUE, r.gitlab, FALSE)
       ELSE Outcome(local, local, FALSE, gl, FALSE)

mergeMergeRequest(resource, mergeOptions, dryRun, gl) ==
    IF ~dryRun
    THEN LET r == IF mergeOptions.cancel
                  THEN remoteWrite(gl, "cancel_merge", resource.id, "none", <<>>, "")
                  ELSE remoteWrite(gl, "merge", resource.id, "none", <<>>, "")
         IN Outcome(r.record, resource, TRUE, r.gitlab, FALSE)
    ELSE Outcome(resource, resource, FALSE, gl, FALSE)

changeStatus(resource, status, resourceType, dryRun, gl) ==
    IF ~dryRun
    THEN IF ~clientSupports(resourceType)
         THEN Outcome(resource, resource, FALSE, gl, TRUE)
         ELSE IF resourceType = "merge_request" /\ status = "merge"
         THEN mergeMergeRequest(resource, [cancel |-> FALSE], dryRun, gl)
         ELSE LET sendsEvent == resourceType = "issue" \/ status \in {"close", "reopen"}
                  r == remoteWrite(gl, "edit", resource.id,
                                   IF sendsEvent THEN "stateEvent" ELSE "none", <<>>,
                                   IF sendsEvent THEN status ELSE "")
              IN Outcome(r.record, resource, TRUE, r.gitlab, FALSE)
    ELSE Outcome(resource, resource, FALSE, gl, FALSE)

assignResource(resource, assigneeId, resourceType, dryRun, gl) ==
    IF ~dryRun
    THEN IF ~clientSupports(resourceType)
         THEN Outcome(resource, resource, FALSE, gl, TRUE)
         ELSE LET r == remoteWrite(gl, "edit", resource.id, "assignee_id", <<>>, assigneeId)
              IN Outcome(r.record, resource, TRUE, r.gitlab, FALSE)
    ELSE Outcome(resource, resource, FALSE, gl, FALSE)

assignReviewer(resource, reviewerIds, dryRun, gl) ==
    IF ~dryRun
    THEN LET r == remoteWrite(gl, "edit", resource.id, "reviewer_ids", <<>>, reviewerIds)
         IN Outcome(r.record, resource, TRUE, r.gitlab, FALSE)
    ELSE Outcome(resource, resource, FALSE, gl, FALSE)

mentionUsers(resource, users, resourceType, dryRun, gl) ==
    IF ~dryRun
    THEN IF ~clientSupports(resourceType)
         THEN Outcome(resource, resource, FALSE, gl, TRUE)
         ELSE Outcome(resource, resource, FALSE,
                      remoteWrite(gl, "note", resource.id, "mention", <<>>, users).gitlab,
                      FALSE)
    ELSE Outcome(resource, resource, FALSE, gl, FALSE)

moveResource(resource, targetProjectPath, dryRun, gl) ==
    IF ~dryRun
    THEN LET r == remoteWrite(gl, "move", resource.id, "none", <<>>, targetProjectPath)
         IN Outcome(r.record, resource, TRUE, r.gitlab, FALSE)
    ELSE Outcome(resource, resource, FALSE, gl, FALSE)

\* addComment(resource, actions, resourceType, dryRun): comment is
\* actions.comment, the template of the note; the write records the template
addComment(resource, comment, resourceType, dryRun, gl) ==
    IF ~dryRun
    THEN IF ~clientSupports(resourceType)
         THEN Outcome(resource, resource, FALSE, gl, TRUE)
         ELSE Outcome(resource, resource, FALSE,
                      remoteWrite(gl, "note", resource.id, "comment", <<>>, comment).gitlab,
                      FALSE)
    ELSE Outcome(resource, resource, FALSE, gl, FALSE)

deleteBranch(resource, dryRun, gl) ==
    IF ~dryRun
    THEN Outcome(resource, resource, FALSE,
                 remoteWrite(gl, "remove_branch", resource.id, "none", <<>>, "").gitlab,
                 FALSE)
    ELSE Outcome(resource, resource, FALSE, gl, FALSE)

\* the if statements of execute, top to bottom
Precedence ==
    <<"labels", "remove_labels", "status", "mention", "move", "comment",
      "delete", "assignee", "reviewer", "merge", "extension">>

ActionKinds == Range(Precedence)

\* actions is the array Object.entries gives for the action map
HasAction(actions, kind) == \E i \in 1..Len(actions) : actions[i][1] = kind

GetAction(actions, kind) ==
    actions[CHOOSE i \in 1..Len(actions) : actions[i][1] = kind][2]

\* the condition of the if statement of one action kind
applies(actions, kind, resourceType) ==
    /\ HasAction(actions, kind)
    /\ kind = "move" => resourceType = "issue"
    /\ kind = "delete" => resourceType = "branch"
    /\ kind \in {"reviewer", "merge"} => resourceType = "merge_request"

\* an execute that walks the keys of the action map in their own order
nextKindInKeyOrder(actions, resourceType, after) ==
    LET start == IF after = "" THEN 1
                 ELSE (CHOOSE i \in 1..Len(actions) : actions[i][1] = after) + 1
        later == {j \in start..Len(actions) : applies(actions, actions[j][1], resourceType)}
    IN IF later = {} THEN ""
       ELSE actions[CHOOSE j \in later : \A k \in later : j <= k][1]

\* the action kind whose if statement is the next to hold behind that of
\* `after` ("" at the top of the loop body), "" when none does
nextKind(actions, resourceType, after) ==
    LET start == IF after = "" THEN 1
                 ELSE (CHOOSE i \in 1..Len(Precedence) : Precedence[i] = after) + 1
        later == {j \in start..Len(Precedence) :
                     applies(actions, Precedence[j], resourceType)}
    IN IF later = {} THEN ""
       ELSE Precedence[CHOOSE j \in later : \A k \in later : j <= k]

NoResource == Resource(0, "", <<>>, 0, "")

\* a frame of execute: resource is the loop variable, aliased says that it
\* still is the object resources[idx], pos the action kind to apply next,
\* trace the action functions called so far
IdleFrame ==
    [status |-> "idle", actions |-> <<>>, resources |-> <<>>, resourceType |-> "",
     dryRun |-> FALSE, idx |-> 0, pos |-> "", resource |-> NoResource,
     aliased |-> FALSE, trace |-> <<>>]

\* the frame when the first await of execute is reached, or at its return
startExecute(actions, resources, resourceType, dryRun) ==
    LET first == nextKind(actions, resourceType, "")
        entered == [IdleFrame EXCEPT !.actions = actions, !.resources = resources,
                                     !.resourceType = resourceType, !.dryRun = dryRun]
    IN IF Len(resources) = 0 \/ first = ""
       THEN [entered EXCEPT !.status = "returned"]
       ELSE [entered EXCEPT !.status = "running", !.idx = 1, !.pos = first,
                            !.resource = resources[1], !.aliased = TRUE]

\* modules that import() finds under the working directory
LoadableModules == {"./ext.js"}

\* the action function of the kind at f.pos, called on f.resource
callAction(f, gl, ext) ==
    LET kind == f.pos
        payload == GetAction(f.actions, kind)
        importFails == kind = "extension" /\ payload \notin ext
                       /\ payload \notin LoadableModules
    IN CASE kind = "labels" ->
              addLabels(f.resource, payload, f.resourceType, f.dryRun, gl)
         [] kind = "remove_labels" ->
              removeLabels(f.resource, payload, f.resourceType, f.dryRun, gl)
         [] kind = "status" ->
              changeStatus(f.resource, payload, f.resourceType, f.dryRun, gl)
         [] kind = "mention" ->
              mentionUsers(f.resource, payload, f.resourceType, f.dryRun, gl)
         [] kind = "move" -> moveResource(f.resource, payload, f.dryRun, gl)
         [] kind = "comment" ->
              addComment(f.resource, payload, f.resourceType, f.dryRun, gl)
         [] kind = "delete" -> deleteBranch(f.resource, f.dryRun, gl)
         [] kind = "assignee" ->
              assignResource(f.resource, payload, f.resourceType, f.dryRun, gl)
         [] kind = "reviewer" -> assignReviewer(f.resource, payload, f.dryRun, gl)
         [] kind = "merge" -> mergeMergeRequest(f.resource, payload, f.dryRun, gl)
         [] OTHER -> Outcome(f.resource, f.resource, FALSE, gl, importFails)

\* the await of the client call rejects: the function raises after what it
\* did to the object passed in, and the remote is as it was
settle(ran, rejected, gl) ==
    IF rejected THEN Outcome(ran.obj, ran.obj, FALSE, gl, TRUE) ELSE ran

\* the statements of execute behind the call of an action function, up to
\* the next await: out is what the function left
executeAfterCall(f, ext, out) ==
    LET kind == f.pos
        payload == GetAction(f.actions, kind)
        registered == kind = "extension" /\ payload \in ext
        importFails == kind = "extension" /\ ~registered /\ payload \notin LoadableModules
        \* execute drops what addComment and deleteBranch return
        rebinds == kind \notin {"comment", "delete", "extension"}
        via == IF kind # "extension" THEN "call"
               ELSE IF registered THEN "registered"
               ELSE IF importFails THEN "import failed" ELSE "imported"
        called == [f EXCEPT
                     !.trace = Append(@, [idx |-> f.idx, action |-> kind, via |-> via]),
                     !.resources = IF f.aliased THEN [@ EXCEPT ![f.idx] = out.obj] ELSE @,
                     !.resource = IF rebinds THEN out.ret ELSE out.obj,
                     !.aliased = f.aliased /\ ~(rebinds /\ out.fresh)]
        next == nextKind(f.actions, f.resourceType, kind)
    IN [gitlab |-> out.gitlab,
        exec |->
          IF out.threw THEN [called EXCEPT !.status = "threw"]
          ELSE IF registered THEN [called EXCEPT !.status = "returned"]
          ELSE IF next # "" THEN [called EXCEPT !.pos = next]
          ELSE IF f.idx < Len(f.resources)
               THEN [called EXCEPT !.idx = f.idx + 1,
                                   !.pos = nextKind(f.actions, f.resourceType, ""),
                                   !.resource = called.resources[f.idx + 1],
                                   !.aliased = TRUE]
               ELSE [called EXCEPT !.status = "returned"]]

\* the call of one action function of execute and the statements up to the
\* next await: frame f, remote gl, ext the registered aliases
executeStep(f, gl, ext) ==
    executeAfterCall(f, ext,
                     settle(callAction(f, gl, ext),
                            /\ ~f.dryRun /\ f.pos # "extension"
                            /\ clientSupports(f.resourceType)
                            /\ f.resource.id \in gl.rejects,
                            gl))

\* executeSummary(summarize, summaryData, resourceType, dryRun): the issue is
\* filed in summarize.destination, else in the project of the first resource
executeSummary(summarize, summaryData, resourceType, dryRun, gl) ==
    IF ~dryRun
    THEN remoteWrite(gl, "create_issue", summaryData[1].resources[1].id, "none", <<>>,
                     IF summarize.destination # "" THEN summarize.destination
                     ELSE "project of first resource").gitlab
    ELSE gl

\* ------------------------------------------------------------- executor inputs
\* the i-th resource loaded: ids and creation times ascending, every second
\* one closed, the odd ones labelled bug
PoolResource(i) ==
    Resource(i, IF i % 2 = 0 THEN "closed" ELSE "opened",
             IF i % 2 = 1 THEN <<lblBug>> ELSE <<>>, i,
             IF i % 2 = 1 THEN "alice" ELSE "bob")

ResourceLists == {[i \in 1..n |-> PoolResource(i)] : n \in 0..MaxResources}

ResourceTypes == {"issue", "merge_request", "branch"}

ExtensionAliases == {"stale_bot"}

\* the entries action maps are built from: one or two payloads a kind
ActionEntries ==
    {<<"labels", <<lblBug>>>>, <<"labels", <<lblUrgent, lblUrgent>>>>,
     <<"remove_labels", <<lblBug>>>>,
     <<"status", "close">>, <<"status", "merge">>,
     <<"mention", <<"alice">>>>,
     <<"move", "group/other">>,
     <<"comment", "seen in {{state}}">>,
     <<"delete", TRUE>>,
     <<"assignee", "42">>,
     <<"reviewer", "7">>,
     <<"merge", [cancel |-> FALSE]>>, <<"merge", [cancel |-> TRUE]>>,
     <<"extension", "stale_bot">>, <<"extension", "./ext.js">>}

\* action maps in every key order
ActionMaps ==
    {m \in SeqsUpTo(ActionEntries, 0, MaxActions) :
        \A i, j \in 1..Len(m) : i # j => m[i][1] # m[j][1]}

\* rules: conditions, limits and actions (hasActions false: no actions key)
Rules ==
    {[conditions |-> c, limits |-> l, hasActions |-> a # <<>>, actions |-> a] :
        c \in {<<>>, <<<<"state", "opened">>>>, <<<<"state", "merged">>>>,
               <<<<"author_member",
                   [source |-> "project", source_id |-> 7, condition |-> "member_of"]>>>>},
        l \in LimitConfigs,
        a \in {<<>>, <<<<"labels", <<lblUrgent>>>>>>, <<<<"comment", "seen in {{state}}">>>>}}

\* the remote rejects no write, or the writes on one of the resources
RejectSets(resources) == {{}} \cup {{resources[i].id} : i \in 1..Len(resources)}

Summaries == {[destination |-> ""], [destination |-> "group/reports"]}

\* ------------------------------------------------------------- executor actions
\* the state new ActionExecutor(gitlab) and new PlatinumTriage leave
InitExec ==
    /\ extensionLoaded = {}
    /\ exec = IdleFrame
    /\ gitlab = RemoteIdle
    /\ ruleCall = NoCall
    /\ summaryCall = NoCall

\* no call has been made on the executor yet
CanCall == exec.status = "idle" /\ ruleCall = NoCall /\ summaryCall = NoCall

RegisterExtension(alias) ==
    /\ CanCall
    /\ extensionLoaded' = extensionLoaded \cup {alias}
    /\ UNCHANGED <<exec, gitlab, ruleCall, summaryCall, varsLimits, varsCond, varsPair, varsCmd, varsMore>>

\* execute(actions, resources, resourceType, dryRun) is entered
Execute(actions, resources, resourceType, dryRun, rejects) ==
    /\ CanCall
    /\ exec' = startExecute(actions, resources, resourceType, dryRun)
    /\ gitlab' = RemoteRejecting(resources, rejects)
    /\ UNCHANGED <<extensionLoaded, ruleCall, summaryCall, varsLimits, varsCond, varsPair, varsCmd, varsMore>>

\* the if statement of one action kind in execute
ExecuteAction(kind) ==
    /\ exec.status = "running" /\ exec.pos = kind
    /\ LET r == executeStep(exec, gitlab, extensionLoaded)
       IN /\ exec' = r.exec
          /\ gitlab' = r.gitlab
    /\ UNCHANGED <<extensionLoaded, ruleCall, summaryCall, varsLimits, varsCond, varsPair, varsCmd, varsMore>>

\* processRule without the return on an empty result of filterResources
ProcessRuleUnguarded(rule, resources, resourceType, dryRun) ==
    /\ CanCall
    /\ LET filteredResources == filterResources(resources, rule.conditions, customFilters)
           executes == /\ Len(resources) # 0
                       /\ ~filteredResources.threw
                       /\ rule.hasActions
       IN /\ ruleCall' = [op |-> "processRule", rule |-> rule, resources |-> resources,
                          threw |-> Len(resources) # 0 /\ filteredResources.threw,
                          executes |-> executes,
                          handed |-> IF executes THEN filteredResources.list ELSE <<>>]
          /\ exec' = IF executes
                     THEN startExecute(rule.actions, filteredResources.list,
                                       resourceType, dryRun)
                     ELSE exec
          /\ gitlab' = IF executes THEN RemoteOf(resources) ELSE gitlab
    /\ UNCHANGED <<extensionLoaded, summaryCall, varsLimits, varsCond, varsPair, varsCmd, varsMore>>

\* PlatinumTriage.processRule(rule, resources, resourceType, dryRun) up to
\* its call of execute
ProcessRule(rule, resources, resourceType, dryRun) ==
    /\ CanCall
    /\ LET filteredResources == filterResources(resources, rule.conditions, customFilters)
           executes == /\ Len(resources) # 0
                       /\ ~filteredResources.threw
                       /\ Len(filteredResources.list) # 0
                       /\ rule.hasActions
       IN /\ ruleCall' = [op |-> "processRule", rule |-> rule, resources |-> resources,
                          threw |-> Len(resources) # 0 /\ filteredResources.threw,
                          executes |-> executes,
                          handed |-> IF executes THEN filteredResources.list ELSE <<>>]
          /\ exec' = IF executes
                     THEN startExecute(rule.actions, filteredResources.list,
                                       resourceType, dryRun)
                     ELSE exec
          /\ gitlab' = IF executes THEN RemoteOf(resources) ELSE gitlab
    /\ UNCHANGED <<extensionLoaded, summaryCall, varsLimits, varsCond, varsPair, varsCmd, varsMore>>

ExecuteSummary(summarize, summaryData, resourceType, dryRun) ==
    /\ CanCall
    /\ summaryCall' = [op |-> "executeSummary", summarize |-> summarize,
                       dryRun |-> dryRun]
    /\ gitlab' = executeSummary(summarize, summaryData, resourceType, dryRun,
                                RemoteOf(summaryData[1].resources))
    /\ UNCHANGED <<extensionLoaded, exec, ruleCall, varsLimits, varsCond, varsPair, varsCmd, varsMore>>

NextExec ==
    \/ \E alias \in ExtensionAliases : RegisterExtension(alias)
    \/ /\ CanCall
       /\ \E actions \in ActionMaps, resources \in ResourceLists,
             resourceType \in ResourceTypes, dryRun \in BOOLEAN :
             \E rejects \in RejectSets(resources) :
                 Execute(actions, resources, resourceType, dryRun, rejects)
    \/ \E kind \in ActionKinds : ExecuteAction(kind)
    \/ /\ CanCall
       /\ \E rule \in Rules, resources \in ResourceLists,
             resourceType \in {"issue", "merge_request"}, dryRun \in BOOLEAN :
             ProcessRule(rule, resources, resourceType, dryRun)
    \/ /\ CanCall
       /\ \E summarize \in Summaries, resources \in ResourceLists \ {<<>>},
             resourceType \in {"issue", "merge_request"}, dryRun \in BOOLEAN :
             ExecuteSummary(summarize, <<[resources |-> resources]>>, resourceType, dryRun)

\* ------------------------------------------------------------- dry run next to live run
\* two executors given the same call, one with dryRun true and one with
\* dryRun false, each with a remote of its own
PairKinds == {"labels", "remove_labels", "status", "comment"}

PairActionMaps == {m \in ActionMaps : \A i \in 1..Len(m) : m[i][1] \in PairKinds}

InitPair ==
    /\ pairDry = [exec |-> IdleFrame, gitlab |-> RemoteIdle]
    /\ pairLive = [exec |-> IdleFrame, gitlab |-> RemoteIdle]

PairExecute(actions, resources, resourceType) ==
    /\ pairDry.exec.status = "idle"
    /\ pairDry' = [exec |-> startExecute(actions, resources, resourceType, TRUE),
                   gitlab |-> RemoteOf(resources)]
    /\ pairLive' = [exec |-> startExecute(actions, resources, resourceType, FALSE),
                    gitlab |-> RemoteOf(resources)]
    /\ UNCHANGED <<varsLimits, varsCond, varsExec, varsCmd, varsMore>>

\* both executors pass the if statement of the same action kind
PairAction(kind) ==
    /\ pairDry.exec.status = "running" /\ pairDry.exec.pos = kind
    /\ pairLive.exec.status = "running" /\ pairLive.exec.pos = kind
    /\ pairDry' = executeStep(pairDry.exec, pairDry.gitlab, {})
    /\ pairLive' = executeStep(pairLive.exec, pairLive.gitlab, {})
    /\ UNCHANGED <<varsLimits, varsCond, varsExec, varsCmd, varsMore>>

NextPair ==
    \/ \E actions \in PairActionMaps, resources \in ResourceLists,
          resourceType \in {"issue", "merge_request"} :
          PairExecute(actions, resources, resourceType)
    \/ \E kind \in PairKinds : PairAction(kind)

\* ------------------------------------------------------------- CommandFramework
\* A command pattern, an input and a message are texts: sequences of
\* one-character strings. A word is a text without a blank.
MaxTokens == 2       \* words of a command pattern, and of a message's command
MaxWords == 3        \* words of an input handed to match

\* the value null
null == [null |-> TRUE]

\* arguments that are not strings: null, undefined and the number 123. A
\* text has one-character elements only, so these differ from every text.
argNull == <<"null">>
argUndefined == <<"undefined">>
argNumber == <<"123">>
NonStrings == {argNull, argUndefined, argNumber}

\* typeof x === 'string'
isString(x) == x \notin NonStrings

\* !x for a string, null, undefined or a non-zero number
falsy(x) == x = <<>> \/ x \in {argNull, argUndefined}

\* the characters of the class \w
WordChars ==
    {"a", "b", "c", "d", "e", "f", "g", "h", "i", "j", "k", "l", "m",
     "n", "o", "p", "q", "r", "s", "t", "u", "v", "w", "x", "y", "z",
     "A", "B", "C", "D", "E", "F", "G", "H", "I", "J", "K", "L", "M",
     "N", "O", "P", "Q", "R", "S", "T", "U", "V", "W", "X", "Y", "Z",
     "0", "1", "2", "3", "4", "5", "6", "7", "8", "9", "_"}

\* String.prototype.startsWith
startsWith(s, prefix) ==
    Len(s) >= Len(prefix) /\ SubSeq(s, 1, Len(prefix)) = prefix

\* String.prototype.split(/\s+/): s is cut at every run of blanks; a blank at
\* either end of s leaves an empty first or last piece
RECURSIVE splitWhitespace(_)
splitWhitespace(s) ==
    LET k == indexFrom(s, " ", 1)
    IN IF k = 0 THEN <<s>>
       ELSE <<SubSeq(s, 1, k - 1)>>
            \o splitWhitespace(trimLeft(SubSeq(s, k + 1, Len(s))))

\* the last position of the longest run of \w characters of word that starts
\* at position i; i - 1 when the character at i is not one
RECURSIVE wordRunEnd(_, _)
wordRunEnd(word, i) ==
    IF i <= Len(word) /\ word[i] \in WordChars THEN wordRunEnd(word, i + 1)
    ELSE i - 1

strOpen == <<"{", "{", ".", ".", ".">>
strClose == <<"}", "}">>

\* a match of the expression with anchors, /^{{\.\.\.(\w+)}}$/
variableMatchAnchored(word) ==
    IF /\ SubSeq(word, 1, Min(5, Len(word))) = strOpen
       /\ wordRunEnd(word, 6) >= 6
       /\ wordRunEnd(word, 6) + 2 = Len(word)
       /\ SubSeq(word, Len(word) - 1, Len(word)) = strClose
    THEN [found |-> TRUE, name |-> SubSeq(word, 6, wordRunEnd(word, 6))]
    ELSE [found |-> FALSE, name |-> <<>>]

\* word.match(/{{\.\.\.(\w+)}}/): the expression has no anchors, so the match
\* may start at any position of word; the leftmost one is taken. \w+ takes the
\* whole run of \w characters: what follows a shorter run is a \w character,
\* never "}". found is FALSE for the value null, name is group 1.
variableMatch(word) ==
    LET matchesAt(i) ==
            /\ SubSeq(word, i, Min(i + 4, Len(word))) = strOpen
            /\ wordRunEnd(word, i + 5) >= i + 5
            /\ SubSeq(word, wordRunEnd(word, i + 5) + 1,
                      Min(wordRunEnd(word, i + 5) + 2, Len(word))) = strClose
        starts == {i \in 1..Len(word) : matchesAt(i)}
        first == CHOOSE i \in starts : \A j \in starts : i <= j
    IN IF starts = {} THEN [found |-> FALSE, name |-> <<>>]
       ELSE [found |-> TRUE,
             name |-> SubSeq(word, first + 5, wordRunEnd(word, first + 5))]

\* the token pushed for words[i] (i counted from 0, as in the code)
tokenOf(word, i) ==
    LET variableMatch_ == variableMatch(word)
    IN IF variableMatch_.found
       THEN [type |-> "variable", name |-> variableMatch_.name, position |-> i]
       ELSE [type |-> "literal", value |-> word, position |-> i]

\* parseTokens(): threw is TRUE when the Error of line 28 is raised, tokens is
\* the value of this.#tokens afterwards (the constructor set it to [])
parseTokens(command) ==
    IF falsy(command) \/ ~isString(command) THEN [threw |-> TRUE, tokens |-> <<>>]
    ELSE LET trimmedCommand == trim(command)
         IN IF trimmedCommand = <<>> THEN [threw |-> FALSE, tokens |-> <<>>]
            ELSE LET words == splitWhitespace(trimmedCommand)
                 IN [threw |-> FALSE,
                     tokens |-> [i \in 1..Len(words) |-> tokenOf(words[i], i - 1)]]

\* a slice that takes nothing off the word
sliceNothing(word) == word

\* String.prototype.slice(1,) of a word
slice1(word) == SubSeq(word, 2, Len(word))

strLabels == <<"l", "a", "b", "e", "l", "s">>

\* the three while loops of match: the value of inputIndex when the loop ends
RECURSIVE whileStartsWithTilde(_, _)
whileStartsWithTilde(inputWords, inputIndex) ==
    IF inputIndex < Len(inputWords) /\ startsWith(inputWords[inputIndex + 1], <<"~">>)
    THEN whileStartsWithTilde(inputWords, inputIndex + 1)
    ELSE inputIndex

whileRemaining(inputWords, inputIndex) ==
    IF inputIndex < Len(inputWords) THEN Len(inputWords) ELSE inputIndex

\* a loop that takes every remaining word, whatever token follows
whileNotNextLiteralToEnd(inputWords, inputIndex, value) ==
    whileRemaining(inputWords, inputIndex)

RECURSIVE whileNotNextLiteral(_, _, _)
whileNotNextLiteral(inputWords, inputIndex, value) ==
    IF inputIndex < Len(inputWords) /\ inputWords[inputIndex + 1] # value
    THEN whileNotNextLiteral(inputWords, inputIndex + 1, value)
    ELSE inputIndex

\* extractedVars[name] = variableValues
assignVar(extractedVars, name, variableValues) ==
    [n \in DOMAIN extractedVars \cup {name} |->
        IF n = name THEN variableValues ELSE extractedVars[n]]

\* the for loop of match from tokenIndex on (tokens counted from 1 here,
\* inputIndex from 0 as in the code). returned is TRUE when the loop left
\* through the return null of line 119. trace has one entry per token that
\* was walked: the values of inputIndex before and after it.
RECURSIVE matchLoop(_, _, _, _, _, _)
matchLoop(tokens, inputWords, tokenIndex, inputIndex, extractedVars, trace) ==
    IF tokenIndex > Len(tokens)
    THEN [returned |-> FALSE, inputIndex |-> inputIndex,
          extractedVars |-> extractedVars, trace |-> trace]
    ELSE LET token == tokens[tokenIndex]
             hasNext == tokenIndex + 1 <= Len(tokens)
         IN IF token.type = "literal"
            THEN IF \/ inputIndex >= Len(inputWords)
                    \/ inputWords[inputIndex + 1] # token.value
                 THEN [returned |-> TRUE, inputIndex |-> inputIndex,
                       extractedVars |-> extractedVars, trace |-> trace]
                 ELSE matchLoop(tokens, inputWords, tokenIndex + 1, inputIndex + 1,
                          extractedVars,
                          Append(trace, [from |-> inputIndex, to |-> inputIndex + 1]))
            ELSE LET isLabels == token.name = strLabels
                     end == IF isLabels
                            THEN whileStartsWithTilde(inputWords, inputIndex)
                            ELSE IF hasNext /\ tokens[tokenIndex + 1].type = "literal"
                            THEN whileNotNextLiteral(inputWords, inputIndex,
                                     tokens[tokenIndex + 1].value)
                            ELSE whileRemaining(inputWords, inputIndex)
                     variableValues ==
                         [k \in 1..(end - inputIndex) |->
                             IF isLabels THEN slice1(inputWords[inputIndex + k])
                             ELSE inputWords[inputIndex + k]]
                 IN matchLoop(tokens, inputWords, tokenIndex + 1, end,
                        assignVar(extractedVars, token.name, variableValues),
                        Append(trace, [from |-> inputIndex, to |-> end]))

\* the locals of one call of match when it returns: early is TRUE when it
\* left before the loop (lines 99-106), inputWords is the split input, loop
\* is what the for loop did (loop.returned, loop.inputIndex, loop.trace)
matchRun(tokens, input) ==
    LET inputWords == splitWhitespace(trim(input))
    IN [early |-> \/ falsy(input) \/ ~isString(input)
                  \/ Len(inputWords) = 1 /\ inputWords[1] = <<>>,
        inputWords |-> inputWords,
        loop |-> matchLoop(tokens, inputWords, 1, 0, [n \in {} |-> <<>>], <<>>)]

\* a match without the test of line 150
matchKeepingLeftover(tokens, input) ==
    LET run == matchRun(tokens, input)
    IN IF run.early \/ run.loop.returned THEN null
       ELSE [matched |-> TRUE, variables |-> run.loop.extractedVars]

\* match(input) on an object whose #tokens is tokens
match(tokens, input) ==
    LET run == matchRun(tokens, input)
    IN IF run.early \/ run.loop.returned THEN null
       ELSE IF run.loop.inputIndex # Len(run.inputWords) THEN null
       ELSE [matched |-> TRUE, variables |-> run.loop.extractedVars]

\* a handleInput that hands the message to match without looking for the
\* mention
handleInputAnyMessage(this, message) ==
    IF falsy(message) \/ ~isString(message) THEN null
    ELSE match(this.tokens, message)

\* handleInput(message); this.prefix is true whatever the constructor is given
handleInput(this, message) ==
    LET mention == <<"@">> \o this.bot_username
    IN IF falsy(message) \/ ~isString(message) THEN null
       ELSE IF this.prefix /\ ~startsWith(message, mention) THEN null
       ELSE LET m == IF this.prefix
                     THEN trim(SubSeq(message, Len(mention) + 1, Len(message)))
                     ELSE message
            IN match(this.tokens, m)

\* ------------------------------------------------------------- CommandFramework inputs
strTo == <<"t", "o">>
strBot == <<"b", "o", "t">>
\* pattern words: "{{...labels}}", "{{...u}}" and "x{{...u}}"
varLabels == strOpen \o strLabels \o strClose
varU == strOpen \o <<"u">> \o strClose
varInside == <<"x">> \o varU

PatternWords == {strLabels, strTo, varLabels, varU, varInside}

\* input words: "labels", "to", "~bug", "~urg", "bug"
InputWords == {strLabels, strTo, <<"~">> \o lblBug, <<"~">> \o lblUrgent, lblBug}

\* Array.prototype.join
RECURSIVE joinWords(_, _)
joinWords(words, separator) ==
    IF words = <<>> THEN <<>>
    ELSE IF Len(words) = 1 THEN words[1]
    ELSE words[1] \o separator \o joinWords(Tail(words), separator)

\* the texts "labels {{...labels}}", "labels ~bug ~urg" and "labels bug bug"
cmdLabels == joinWords(<<strLabels, varLabels>>, <<" ">>)
inputTwoLabels ==
    joinWords(<<strLabels, <<"~">> \o lblBug, <<"~">> \o lblUrgent>>, <<" ">>)
inputNoTilde == joinWords(<<strLabels, lblBug, lblBug>>, <<" ">>)

\* the command patterns given to the constructor: the empty string, null, a blank,
\* up to MaxTokens words, and one word between blanks
Commands ==
    {joinWords(ws, <<" ">>) : ws \in SeqsUpTo(PatternWords, 0, MaxTokens)}
    \cup {<<" ">>, argNull}
    \cup {<<" ">> \o w \o <<" ">> : w \in PatternWords}

\* the inputs given to match: up to MaxWords words, and two words with blanks
\* around and a double blank between
Inputs ==
    {joinWords(ws, <<" ">>) : ws \in SeqsUpTo(InputWords, 0, MaxWords)}
    \cup {<<" ">>} \cup NonStrings
    \cup {<<" ">> \o joinWords(ws, <<" ", " ">>) \o <<" ">> :
             ws \in SeqsUpTo(InputWords, 2, 2)}

\* the messages given to handleInput: the mention of the bot followed by a
\* command (after a blank or not), and commands without the mention
Messages ==
    {<<"@">> \o strBot \o sep \o joinWords(ws, <<" ">>) :
        ws \in SeqsUpTo(InputWords, 0, MaxTokens), sep \in {<<>>, <<" ">>}}
    \cup {joinWords(ws, <<" ">>) : ws \in SeqsUpTo(InputWords, 0, 1)}
    \cup NonStrings
    \cup {<<"@">> \o strBot \o <<" ", " ">>, <<"@", "o">> \o strBot \o <<" ">> \o strTo}

\* ------------------------------------------------------------- CommandFramework actions
NoFramework == [constructed |-> FALSE]
NoCmdCall == [op |-> "none"]

InitCmd ==
    /\ framework = NoFramework
    /\ cmdCall = NoCmdCall

\* new CommandFramework("bot", command): the constructor runs parseTokens, and
\* no object exists when parseTokens raises
Construct(command) ==
    /\ framework = NoFramework
    /\ cmdCall = NoCmdCall
    /\ LET parsed == parseTokens(command)
       IN /\ framework' =
                IF parsed.threw THEN NoFramework
                ELSE [constructed |-> TRUE, bot_username |-> strBot,
                      command |-> command, prefix |-> TRUE,
                      tokens |-> parsed.tokens]
          /\ cmdCall' = [op |-> "new", input |-> command, threw |-> parsed.threw]
    /\ UNCHANGED <<varsLimits, varsCond, varsExec, varsPair, varsMore>>

CanCallCmd == framework # NoFramework /\ cmdCall = NoCmdCall

\* match(input); run records the locals of the call
Match(input) ==
    /\ cmdCall' = [op |-> "match", input |-> input,
                   result |-> match(framework.tokens, input),
                   run |-> matchRun(framework.tokens, input)]
    /\ UNCHANGED <<framework, varsLimits, varsCond, varsExec, varsPair, varsMore>>

\* handleInput(message)
HandleInput(message) ==
    /\ cmdCall' = [op |-> "handleInput", input |-> message,
                   result |-> handleInput(framework, message)]
    /\ UNCHANGED <<framework, varsLimits, varsCond, varsExec, varsPair, varsMore>>

\* the caller takes the result
CmdReturn ==
    /\ cmdCall # NoCmdCall
    /\ cmdCall' = NoCmdCall
    /\ UNCHANGED <<framework, varsLimits, varsCond, varsExec, varsPair, varsMore>>

NextCmd ==
    \/ \E command \in Commands : Construct(command)
    \/ /\ CanCallCmd
       /\ \E input \in Inputs : Match(input)
    \/ /\ CanCallCmd
       /\ \E message \in Messages : HandleInput(message)
    \/ CmdReturn

\* ------------------------------------------------------------- CommandFramework, call after call
\* Two objects are built from one pattern; match, handleInput and getTokens
\* are called on the first, and the caller may push onto an array that
\* getTokens returned. The second object is left alone.
MaxCalls == 2        \* calls of match and handleInput recorded
MaxCopies == 1       \* calls of getTokens

TokCommands ==
    {cmdLabels, joinWords(<<varU, strTo>>, <<" ">>), strTo}

TokInputs ==
    {inputTwoLabels, joinWords(<<lblBug, lblBug, strTo>>, <<" ">>), strTo, <<" ">>}

TokMessages == {strTo, <<"@">> \o strBot \o <<" ">> \o strTo}

\* a getTokens that returns the array of the object itself
getTokensNoCopy(this) == [sameArray |-> TRUE, items |-> this.tokens]

\* getTokens(): [...this.#tokens] is a new array holding the same tokens;
\* sameArray says whether the array returned is the object's own array
getTokens(this) == [sameArray |-> FALSE, items |-> this.tokens]

\* a match that takes the first token off the object when it succeeds
thisAfterCallShifting(this, result) ==
    IF result # null /\ this.tokens # <<>>
    THEN [this EXCEPT !.tokens = Tail(this.tokens)]
    ELSE this

\* the object after a call of match or handleInput that returned result:
\* neither method assigns a field of this
thisAfterCall(this, result) == this

NoMatchers == <<>>

InitTok ==
    /\ matchers = NoMatchers
    /\ copies = <<>>
    /\ callLog = <<>>

\* new CommandFramework("bot", command), twice
BuildTwo(command) ==
    /\ matchers = NoMatchers
    /\ ~parseTokens(command).threw
    /\ LET built == [constructed |-> TRUE, bot_username |-> strBot,
                     command |-> command, prefix |-> TRUE,
                     tokens |-> parseTokens(command).tokens]
       IN matchers' = <<built, built>>
    /\ UNCHANGED <<copies, callLog, varsBase, varsRun, varsLate>>

\* match(input) or handleInput(input) on the first object
TokCall(op, input) ==
    /\ matchers # NoMatchers
    /\ Len(callLog) < MaxCalls
    /\ LET result == IF op = "match" THEN match(matchers[1].tokens, input)
                     ELSE handleInput(matchers[1], input)
       IN /\ callLog' = Append(callLog, [op |-> op, input |-> input, result |-> result])
          /\ matchers' = [matchers EXCEPT ![1] = thisAfterCall(matchers[1], result)]
    /\ UNCHANGED <<copies, varsBase, varsRun, varsLate>>

\* getTokens() on the first object; asReturned keeps what the caller got
TokGetTokens ==
    /\ matchers # NoMatchers
    /\ Len(copies) < MaxCopies
    /\ LET got == getTokens(matchers[1])
       IN copies' = Append(copies, [sameArray |-> got.sameArray, items |-> got.items,
                                    asReturned |-> got.items, pushed |-> FALSE])
    /\ UNCHANGED <<matchers, callLog, varsBase, varsRun, varsLate>>

\* the caller pushes onto the i-th array it got from getTokens; an array
\* that is the object's own array changes the object's tokens with it
PushToCopy(i) ==
    /\ i \in 1..Len(copies)
    /\ ~copies[i].pushed
    /\ LET item == [type |-> "literal", value |-> strTo, position |-> Len(copies[i].items)]
       IN /\ copies' = [copies EXCEPT ![i].items = Append(@, item), ![i].pushed = TRUE]
          /\ matchers' = IF copies[i].sameArray
                         THEN [matchers EXCEPT ![1].tokens = Append(@, item)]
                         ELSE matchers
    /\ UNCHANGED <<callLog, varsBase, varsRun, varsLate>>

NextTok ==
    \/ \E command \in TokCommands : BuildTwo(command)
    \/ \E input \in TokInputs : TokCall("match", input)
    \/ \E message \in TokMessages : TokCall("handleInput", message)
    \/ TokGetTokens
    \/ \E i \in 1..MaxCopies : PushToCopy(i)

\* ------------------------------------------------------------- PlatinumTriage.processResourceType
\* The repository holds two bodies of processResourceType: the one of
\* src/index.js loads the resources inside the try block of every rule, the
\* one of part_002 loads them once, before the loop and outside any try.
MaxRules == 2        \* rules of a resource type

Builds == {"index.js", "part_002"}

\* the rules of a run: one that labels every resource, one that closes the
\* opened ones, one whose js condition is evaluated on resources that have no
\* references field, one without actions
RunRuleSet ==
    {[conditions |-> <<>>, limits |-> [kind |-> "absent", n |-> 0],
      hasActions |-> TRUE, actions |-> <<<<"labels", <<lblUrgent>>>>>>],
     [conditions |-> <<<<"state", "opened">>>>, limits |-> [kind |-> "absent", n |-> 0],
      hasActions |-> TRUE, actions |-> <<<<"status", "close">>>>],
     [conditions |-> <<<<"js", "state === 'opened'">>>>,
      limits |-> [kind |-> "absent", n |-> 0],
      hasActions |-> TRUE, actions |-> <<<<"labels", <<lblBug>>>>>>],
     [conditions |-> <<<<"state", "closed">>>>, limits |-> [kind |-> "absent", n |-> 0],
      hasActions |-> FALSE, actions |-> <<>>]}

RuleLists == SeqsUpTo(RunRuleSet, 1, MaxRules)

\* loadResources: the records the remote holds, by ascending id
loadResources(gl) ==
    [i \in 1..Cardinality(DOMAIN gl.store) |->
        CHOOSE r \in {gl.store[id] : id \in DOMAIN gl.store} :
            Cardinality({id \in DOMAIN gl.store : id < r.id}) = i - 1]

\* execute from frame f to its return or its raise, every await resolved
RECURSIVE runExecute(_, _, _)
runExecuteAfter(step, ext) == runExecute(step.exec, step.gitlab, ext)

runExecute(f, gl, ext) ==
    IF f.status # "running" THEN [exec |-> f, gitlab |-> gl]
    ELSE runExecuteAfter(executeStep(f, gl, ext), ext)

\* the objects of resources after execute worked on some of them: execute
\* assigns the labels of the objects it is handed, and these are the objects
\* of the array the caller loaded
afterExecute(resources, worked) ==
    [i \in 1..Len(resources) |->
        IF \E j \in 1..Len(worked) : worked[j].id = resources[i].id
        THEN [resources[i] EXCEPT
                !.labels = worked[CHOOSE j \in 1..Len(worked) :
                                     worked[j].id = resources[i].id].labels]
        ELSE resources[i]]

\* processRule(rule, resources, resourceType, dryRun) to its return or raise:
\* threw, the remote and the caller's resources afterwards, and the frame of
\* execute when it was called
\* processRule behind its await of execute, done what execute left
processRuleExecuted(resources, done) ==
    [threw |-> done.exec.status = "threw", gitlab |-> done.gitlab,
     resources |-> afterExecute(resources, done.exec.resources),
     executed |-> TRUE, exec |-> done.exec]

\* processRule from the result of filterResources on
processRuleFiltered(rule, resources, resourceType, dryRun, gl, ext, filteredResources) ==
    LET skipped == [threw |-> FALSE, gitlab |-> gl, resources |-> resources,
                    executed |-> FALSE, exec |-> IdleFrame]
    IN IF Len(resources) = 0 THEN skipped
       ELSE IF filteredResources.threw THEN [skipped EXCEPT !.threw = TRUE]
       ELSE IF Len(filteredResources.list) = 0 THEN skipped
       ELSE IF ~rule.hasActions THEN skipped
       ELSE processRuleExecuted(
                resources,
                runExecute(startExecute(rule.actions, filteredResources.list,
                                        resourceType, dryRun), gl, ext))

processRule(rule, resources, resourceType, dryRun, gl, filters, ext) ==
    processRuleFiltered(rule, resources, resourceType, dryRun, gl, ext,
                        filterResources(resources, rule.conditions, filters))

NoRun == [status |-> "idle"]

InitRun == rulesRun = NoRun

\* processResourceType(rules, resourceType, sourceType, sourceId, dryRun) is
\* entered; gl is the remote of the source
ProcessResourceType(build, rules, resourceType, dryRun, gl) ==
    /\ rulesRun = NoRun
    /\ rulesRun' = [status |-> IF build = "part_002" THEN "loading" ELSE "running",
               build |-> build, rules |-> rules, resourceType |-> resourceType,
               dryRun |-> dryRun, gitlab |-> gl, resources |-> <<>>, idx |-> 1,
               outcomes |-> <<>>]
    /\ UNCHANGED <<varsBase, varsTok, varsLate>>

\* part_002, lines 513-517: the one call of loadResources before the loop;
\* its rejection leaves processResourceType
LoadBeforeLoop(loadFails) ==
    /\ rulesRun.status = "loading"
    /\ rulesRun' = IF loadFails THEN [rulesRun EXCEPT !.status = "threw"]
              ELSE [rulesRun EXCEPT !.status = IF rulesRun.rules = <<>> THEN "returned" ELSE "running",
                               !.resources = loadResources(rulesRun.gitlab)]
    /\ UNCHANGED <<varsBase, varsTok, varsLate>>

\* one pass of the for loop over the rules: the try block and its catch
\* the call in progress after the pass of the rule at idx: done is what
\* processRule left, loadFailed that the load inside the try block raised
afterRule(call, loadFailed, done) ==
    [call EXCEPT
        !.outcomes =
            Append(@, [rule |-> call.idx,
                       caught |-> loadFailed \/ done.threw,
                       cause |-> IF loadFailed THEN "load"
                                 ELSE IF ~done.threw THEN "none"
                                 ELSE IF done.executed THEN "action" ELSE "condition",
                       selected |-> IF loadFailed \/ ~done.executed THEN 0
                                    ELSE Len(done.exec.resources),
                       trace |-> IF loadFailed THEN <<>> ELSE done.exec.trace]),
        !.gitlab = IF loadFailed THEN @ ELSE done.gitlab,
        !.resources = IF call.build = "index.js" THEN @ ELSE done.resources,
        !.idx = @ + 1,
        !.status = IF call.idx = Len(call.rules) THEN "returned" ELSE "running"]

ProcessNextRule(loadFails) ==
    /\ rulesRun.status = "running"
    /\ rulesRun' =
          afterRule(rulesRun, rulesRun.build = "index.js" /\ loadFails,
                    processRule(rulesRun.rules[rulesRun.idx],
                                IF rulesRun.build = "index.js"
                                THEN loadResources(rulesRun.gitlab) ELSE rulesRun.resources,
                                rulesRun.resourceType, rulesRun.dryRun, rulesRun.gitlab,
                                <<>>, {}))
    /\ UNCHANGED <<varsBase, varsTok, varsLate>>

NextRun ==
    \/ \E build \in Builds, rules \in RuleLists, resources \in ResourceLists \ {<<>>},
          resourceType \in {"issue", "merge_request"}, dryRun \in BOOLEAN :
          \E rejects \in RejectSets(resources) :
              ProcessResourceType(build, rules, resourceType, dryRun,
                                  RemoteRejecting(resources, rejects))
    \/ \E loadFails \in BOOLEAN : LoadBeforeLoop(loadFails)
    \/ \E loadFails \in BOOLEAN : ProcessNextRule(loadFails)

\* ------------------------------------------------------------- unmarkComment
MaxPieces == 4       \* pieces a comment template is put together from

strBraces == <<"{", "{">>
strBracesEnd == <<"}", "}">>
strAuthor == <<"a", "u", "t", "h", "o", "r">>
strAssignee == <<"a", "s", "s", "i", "g", "n", "e", "e">>
strTitle == <<"t", "i", "t", "l", "e">>
strState == <<"s", "t", "a", "t", "e">>
strUpvotes == <<"u", "p", "v", "o", "t", "e", "s">>
strConstructor == <<"c", "o", "n", "s", "t", "r", "u", "c", "t", "o", "r">>
strAlice == <<"a", "l", "i", "c", "e">>
strBob == <<"b", "o", "b">>
strOpened == <<"o", "p", "e", "n", "e", "d">>
strFix == <<"F", "i", "x">>
strHi == <<"h", "i", " ">>
strNewline == <<"\n">>

\* String(Object), the text of the constructor every object literal inherits
strObjectFunction ==
    <<"f", "u", "n", "c", "t", "i", "o", "n", " ", "O", "b", "j", "e", "c", "t",
      "(", ")", " ", "{", " ", "[", "n", "a", "t", "i", "v", "e", " ", "c", "o",
      "d", "e", "]", " ", "}">>

\* the values a property read can give
jsString(s) == [t |-> "string", s |-> s]
jsNumber(n) == [t |-> "number", n |-> n]
jsFunction(src) == [t |-> "function", s |-> src]
jsUndefined == [t |-> "undefined"]
jsNull == [t |-> "null"]

jsFalsy(v) ==
    \/ v.t \in {"undefined", "null"}
    \/ v.t = "string" /\ v.s = <<>>
    \/ v.t = "number" /\ v.n = 0

Digits == <<"0", "1", "2", "3", "4", "5", "6", "7", "8", "9">>

\* String(v) of a truthy value
jsToString(v) ==
    IF v.t = "number" THEN <<Digits[v.n + 1]>> ELSE v.s

\* a user object, or the field left out
User(username) == [has |-> TRUE, username |-> username]
NoUser == [has |-> FALSE, username |-> <<>>]

\* the table of unmarkComment, for the fields the resources here carry (the
\* other rows read fields that are absent and give undefined, null or '')
placeholders(resource) ==
    [key \in {strAuthor, strAssignee, strTitle, strState, strUpvotes} |->
        CASE key = strAuthor ->
                 IF resource.author.has
                 THEN jsString(<<"@">> \o resource.author.username) ELSE jsString(<<>>)
          [] key = strAssignee ->
                 IF resource.assignee.has
                 THEN jsString(<<"@">> \o resource.assignee.username) ELSE jsNull
          [] key = strTitle -> resource.title
          [] key = strState -> jsString(resource.state)
          [] key = strUpvotes -> jsNumber(resource.upvotes)]

\* what every object literal inherits from Object.prototype (the one member
\* the templates here name)
ObjectPrototype == [key \in {strConstructor} |-> jsFunction(strObjectFunction)]

\* obj[key]: own properties first, then the prototype's, else undefined
getProperty(obj, key) ==
    IF key \in DOMAIN obj THEN obj[key]
    ELSE IF key \in DOMAIN ObjectPrototype THEN ObjectPrototype[key]
    ELSE jsUndefined

\* (_, key) => placeholders[key] || '', and the text replace puts in
replacer(table, key) ==
    LET v == getProperty(table, key)
    IN IF jsFalsy(v) THEN <<>> ELSE jsToString(v)

\* (.*?)}} tried from index j: the index of the first }} that no line break
\* comes before, 0 when there is none
RECURSIVE closeFrom(_, _)
closeFrom(s, j) ==
    IF j + 1 > Len(s) THEN 0
    ELSE IF s[j] = "}" /\ s[j + 1] = "}" THEN j
    ELSE IF s[j] = "\n" THEN 0
    ELSE closeFrom(s, j + 1)

\* replace(/{{(.*?)}}/g, fn) from index p on: every match is replaced by what
\* fn returns and the scan goes on behind the match
RECURSIVE replaceFrom(_, _, _)
replaceFrom(s, p, table) ==
    IF p > Len(s) THEN <<>>
    ELSE IF /\ p + 1 <= Len(s)
            /\ s[p] = "{" /\ s[p + 1] = "{"
            /\ closeFrom(s, p + 2) # 0
         THEN LET j == closeFrom(s, p + 2)
              IN replacer(table, SubSeq(s, p + 2, j - 1)) \o replaceFrom(s, j + 2, table)
         ELSE <<s[p]>> \o replaceFrom(s, p + 1, table)

unmarkComment(resource, commentTemplate) ==
    replaceFrom(commentTemplate, 1, placeholders(resource))

\* -- inputs
CommentResources ==
    {[author |-> User(strAlice), assignee |-> NoUser,
      title |-> jsString(strBraces \o strAuthor \o strBracesEnd),
      state |-> strOpened, upvotes |-> 0],
     [author |-> NoUser, assignee |-> User(strBob), title |-> jsString(strFix),
      state |-> strOpened, upvotes |-> 3],
     [author |-> User(strBob), assignee |-> NoUser, title |-> jsUndefined,
      state |-> strOpened, upvotes |-> 0]}

TemplatePieces ==
    {strBraces, strBracesEnd, strAuthor, strAssignee, strTitle, strUpvotes,
     strConstructor, strHi, strNewline}

RECURSIVE Flatten(_)
Flatten(ss) == IF ss = <<>> THEN <<>> ELSE Head(ss) \o Flatten(Tail(ss))

Templates == {Flatten(ps) : ps \in SeqsUpTo(TemplatePieces, 0, MaxPieces)}

NoComment == [status |-> "idle"]

InitComment == rendering = NoComment

\* -- actions
UnmarkComment(resource, commentTemplate) ==
    /\ rendering = NoComment
    /\ rendering' = [status |-> "returned", resource |-> resource,
                   commentTemplate |-> commentTemplate,
                   result |-> unmarkComment(resource, commentTemplate)]
    /\ UNCHANGED <<varsBase, varsTok, varsRun, varsHook, varsProject, varsSummary, varsLast>>

CommentReturn ==
    /\ rendering # NoComment
    /\ rendering' = NoComment
    /\ UNCHANGED <<varsBase, varsTok, varsRun, varsHook, varsProject, varsSummary, varsLast>>

NextComment ==
    \/ \E resource \in CommentResources, commentTemplate \in Templates :
          UnmarkComment(resource, commentTemplate)
    \/ CommentReturn

\* ------------------------------------------------------------- executeHookActions
\* the action kinds the switch of executeHookActions has a case for
HookKinds ==
    {"labels", "remove_labels", "status", "assignee", "reviewer", "merge",
     "mention", "comment", "move"}

\* match is null (a resource hook) or what handleInput returned (a note hook)
NoMatch == [isNull |-> TRUE, hasLabels |-> FALSE, labels |-> <<>>]
MatchOf(hasLabels, labels) == [isNull |-> FALSE, hasLabels |-> hasLabels, labels |-> labels]

\* the copy of the hook's label list, '{{...labels}}' replaced by the labels
\* the command captured
hookLabels(configured, matchResult) ==
    IF ~matchResult.isNull /\ Includes(configured, varLabels)
    THEN SelectSeq(configured, LAMBDA x : x # varLabels)
             \o (IF matchResult.hasLabels THEN matchResult.labels ELSE <<>>)
    ELSE configured

\* the switch has a case for the key at h.idx that calls an action function
hookCalls(h) ==
    LET kind == h.actions[h.idx][1]
    IN /\ kind \in HookKinds
       /\ kind \in {"reviewer", "merge"} => h.resourceType = "merge_request"
       /\ kind = "move" => h.resourceType = "issue"

\* the action function the case of the key at h.idx calls, dryRun false
callHookAction(h, gl) ==
    LET kind == h.actions[h.idx][1]
        payload == h.actions[h.idx][2]
        resourceType == h.resourceType
    IN CASE ~hookCalls(h) -> Outcome(h.resource, h.resource, FALSE, gl, FALSE)
         [] kind = "labels" ->
              addLabels(h.resource, hookLabels(payload, h.matchResult), resourceType, FALSE, gl)
         [] kind = "remove_labels" ->
              removeLabels(h.resource, hookLabels(payload, h.matchResult), resourceType,
                           FALSE, gl)
         [] kind = "status" -> changeStatus(h.resource, payload, resourceType, FALSE, gl)
         [] kind = "assignee" ->
              assignResource(h.resource, payload, resourceType, FALSE, gl)
         [] kind = "reviewer" -> assignReviewer(h.resource, payload, FALSE, gl)
         [] kind = "merge" -> mergeMergeRequest(h.resource, payload, FALSE, gl)
         [] kind = "mention" ->
              mentionUsers(h.resource, payload, resourceType, FALSE, gl)
         [] kind = "comment" -> addComment(h.resource, payload, resourceType, FALSE, gl)
         [] kind = "move" -> moveResource(h.resource, payload, FALSE, gl)

\* a pass without the catch: the raise of the action function leaves
\* executeHookActions
afterHookActionRethrowing(h, out) ==
    [h EXCEPT
       !.trace = Append(@, [action |-> h.actions[h.idx][1], called |-> hookCalls(h),
                            caught |-> FALSE]),
       !.resource = out.obj,
       !.gitlab = out.gitlab,
       !.idx = IF out.threw THEN @ ELSE @ + 1,
       !.status = IF out.threw THEN "threw"
                  ELSE IF h.idx = Len(h.actions) THEN "returned" ELSE "running"]

\* the end of the pass: a raise is caught and logged, and the loop goes on
afterHookAction(h, out) ==
    [h EXCEPT
       !.trace = Append(@, [action |-> h.actions[h.idx][1], called |-> hookCalls(h),
                            caught |-> out.threw]),
       \* every case passes hook.resource and drops what the function returns
       !.resource = out.obj,
       !.gitlab = out.gitlab,
       !.idx = @ + 1,
       !.status = IF h.idx = Len(h.actions) THEN "returned" ELSE "running"]

\* one pass of the for-in loop: the case of the key at h.idx, with its catch
executeHookAction(h, gl) ==
    afterHookAction(h, settle(callHookAction(h, gl),
                              hookCalls(h) /\ h.resource.id \in gl.rejects, gl))

\* -- inputs
\* the entries hook action maps are built from (merge is given as an object)
HookActionEntries ==
    {<<"labels", <<lblUrgent>>>>, <<"labels", <<varLabels, lblQ>>>>,
     <<"remove_labels", <<varLabels>>>>,
     <<"status", "close">>,
     <<"mention", <<"alice">>>>,
     <<"move", "group/other">>,
     <<"comment", "seen in {{state}}">>,
     <<"delete", TRUE>>,
     <<"assignee", "42">>,
     <<"reviewer", "7">>,
     <<"merge", [cancel |-> FALSE]>>}

\* hook action maps in every key order
HookActionMaps ==
    {m \in SeqsUpTo(HookActionEntries, 1, MaxActions) :
        \A i, j \in 1..Len(m) : i # j => m[i][1] # m[j][1]}

Matches == {NoMatch, MatchOf(TRUE, <<lblBug>>), MatchOf(FALSE, <<>>)}

NoHookCall == [status |-> "idle"]

InitHook == hookCall = NoHookCall

\* -- actions
\* executeHookActions(hook, match, resourceType) is entered; hook.resource
\* is the resource the event addresses, loaded from the remote gl
ExecuteHookActions(actions, resource, matchResult, resourceType, gl) ==
    /\ hookCall = NoHookCall
    /\ hookCall' = [status |-> "running", actions |-> actions, resource |-> resource,
                    matchResult |-> matchResult, resourceType |-> resourceType, gitlab |-> gl,
                    idx |-> 1, trace |-> <<>>]
    /\ UNCHANGED <<varsBase, varsTok, varsRun, varsComment, varsProject, varsSummary, varsLast>>

HookAction ==
    /\ hookCall.status = "running"
    /\ hookCall' = executeHookAction(hookCall, hookCall.gitlab)
    /\ UNCHANGED <<varsBase, varsTok, varsRun, varsComment, varsProject, varsSummary, varsLast>>

NextHook ==
    \/ \E actions \in HookActionMaps, matchResult \in Matches,
          resourceType \in {"issue", "merge_request"} :
          \E rejects \in RejectSets(<<PoolResource(1)>>) :
              ExecuteHookActions(actions, PoolResource(1), matchResult, resourceType,
                                 RemoteRejecting(<<PoolResource(1)>>, rejects))
    \/ HookAction

\* ------------------------------------------------------------- PlatinumTriage.processProject
MaxProjects == 3     \* projects the remote knows

Configs == {"rules of issues", "rules of merge requests"}

\* what gitlab.Projects.show(projectId) settles with: a rejection, a value
\* that is null, or a project (the id asked for can be a path, so the id of
\* the project found is its own)
ShowAnswers ==
    {[settled |-> "rejected", id |-> 0], [settled |-> "null", id |-> 0]}
        \cup {[settled |-> "project", id |-> i] : i \in 1..MaxProjects}

\* a processProject that goes on without a project
afterShowUnchecked(call, answer) ==
    [call EXCEPT !.answer = answer,
                 !.status = "in processResourceRules",
                 !.calls = Append(@, [config |-> call.config, sourceType |-> "project",
                                      sourceId |-> call.projectId, dryRun |-> call.dryRun])]

\* processProject from the settling of Projects.show to its next await
afterShow(call, answer) ==
    IF answer.settled \in {"rejected", "null"}
    THEN [call EXCEPT !.answer = answer, !.status = "threw"]
    ELSE [call EXCEPT !.answer = answer,
                      !.status = "in processResourceRules",
                      !.calls = Append(@, [config |-> call.config, sourceType |-> "project",
                                           sourceId |-> answer.id, dryRun |-> call.dryRun])]

NoProjectCall == [status |-> "idle"]

InitProject == projectCall = NoProjectCall

\* processProject(config, projectId, dryRun) is entered and awaits the lookup
ProcessProject(config, projectId, dryRun) ==
    /\ projectCall = NoProjectCall
    /\ projectCall' = [status |-> "in Projects.show", config |-> config,
                       projectId |-> projectId, dryRun |-> dryRun,
                       answer |-> [settled |-> "pending", id |-> 0], calls |-> <<>>]
    /\ UNCHANGED <<varsBase, varsTok, varsRun, varsComment, varsHook, varsSummary, varsLast>>

ProjectsShowSettles(answer) ==
    /\ projectCall.status = "in Projects.show"
    /\ projectCall' = afterShow(projectCall, answer)
    /\ UNCHANGED <<varsBase, varsTok, varsRun, varsComment, varsHook, varsSummary, varsLast>>

\* processResourceRules returns or raises, and so does processProject
ProcessResourceRulesSettles(raises) ==
    /\ projectCall.status = "in processResourceRules"
    /\ projectCall' = [projectCall EXCEPT !.status = IF raises THEN "threw" ELSE "returned"]
    /\ UNCHANGED <<varsBase, varsTok, varsRun, varsComment, varsHook, varsSummary, varsLast>>

NextProject ==
    \/ \E config \in Configs, projectId \in 1..MaxProjects, dryRun \in BOOLEAN :
          ProcessProject(config, projectId, dryRun)
    \/ \E answer \in ShowAnswers : ProjectsShowSettles(answer)
    \/ \E raises \in BOOLEAN : ProcessResourceRulesSettles(raises)

\* ------------------------------------------------------------- PlatinumTriage.processSummaryPolicies
MaxSummaries == 2    \* summary policies of a resource type
MaxSubRules == 2     \* sub-rules of a summary policy

memberOfGroup == [source |-> "group", source_id |-> 7, condition |-> "member_of"]

\* the sub-rules of a summary policy: the opened resources, summarized; the
\* closed resources of group members, summarized; the opened resources with
\* a labels action and no summarize
SummaryRuleSet ==
    {[conditions |-> <<<<"state", "opened">>>>,
      actions |-> <<<<"summarize", "item of opened">>>>],
     [conditions |-> <<<<"state", "closed">>, <<"author_member", memberOfGroup>>>>,
      actions |-> <<<<"summarize", "item of members">>>>],
     [conditions |-> <<<<"state", "opened">>>>,
      actions |-> <<<<"labels", <<lblUrgent>>>>>>]}

\* a summary policy: its sub-rules and actions.summarize when it has one
SummaryPolicies ==
    {[rules |-> rs, hasSummarize |-> h, summarize |-> [destination |-> "group/reports"]] :
        rs \in SeqsUpTo(SummaryRuleSet, 0, MaxSubRules), h \in BOOLEAN}

\* what the pass of sub-rule i pushes to summaryData
summaryDataOf(rules, i, filteredResources) ==
    IF Len(filteredResources.list) > 0 /\ HasAction(rules[i].actions, "summarize")
    THEN <<[rule |-> i, resources |-> filteredResources.list,
            summary |-> GetAction(rules[i].actions, "summarize")]>>
    ELSE <<>>

\* the inner loop from sub-rule i on: the entries pushed to summaryData
RECURSIVE collectSummaryData(_, _, _)
collectSummaryData(rules, i, resources) ==
    IF i > Len(rules) THEN <<>>
    ELSE summaryDataOf(rules, i, filterResources(resources, rules[i].conditions, <<>>))
             \o collectSummaryData(rules, i + 1, resources)

\* a pass that has done nothing
NoPass ==
    [threw |-> FALSE, cause |-> "none", loaded |-> <<>>, calls |-> 0, executes |-> 0,
     gitlab |-> RemoteIdle]

NoPolicy == [rules |-> <<>>, hasSummarize |-> FALSE, summarize |-> [destination |-> ""]]

\* one pass of the loop over the summaries, to its end or its raise: calls
\* counts the calls of executeSummary, executes those of execute, loaded is
\* what loadResources gave. failAt is the call of loadResources that the
\* remote rejects in this pass, 0 when it rejects none: part_002 loads once
\* before the loop over the sub-rules, src/index.js once for every sub-rule
processSummaryLoaded(summary, build, resourceType, dryRun, gl, failAt, resources, summaryData) ==
    LET loadFails == IF build = "part_002" THEN failAt = 1
                     ELSE failAt \in 1..Len(summary.rules)
        filterThrew == \E i \in 1..Len(summary.rules) :
                           filterResources(resources, summary.rules[i].conditions, <<>>).threw
        summarizes == Len(summaryData) > 0 /\ summary.hasSummarize
        rejected == /\ summarizes /\ ~dryRun
                    /\ summaryData[1].resources[1].id \in gl.rejects
        quiet == [NoPass EXCEPT !.loaded = resources, !.gitlab = gl]
    IN IF loadFails
       THEN [quiet EXCEPT !.threw = TRUE, !.cause = "load",
                          !.loaded = IF failAt > 1 THEN resources ELSE <<>>]
       ELSE IF filterThrew THEN [quiet EXCEPT !.threw = TRUE, !.cause = "condition"]
       ELSE IF ~summarizes THEN quiet
       ELSE IF rejected THEN [quiet EXCEPT !.threw = TRUE, !.cause = "summary", !.calls = 1]
       ELSE [quiet EXCEPT !.calls = 1,
                          !.gitlab = executeSummary(summary.summarize, summaryData,
                                                    resourceType, dryRun, gl)]

processSummary(summary, build, resourceType, dryRun, gl, failAt) ==
    processSummaryLoaded(summary, build, resourceType, dryRun, gl, failAt,
                         loadResources(gl),
                         collectSummaryData(summary.rules, 1, loadResources(gl)))

NoSummaryRun == [status |-> "idle"]

InitSummary == summaryRun = NoSummaryRun

\* processSummaryPolicies(summaries, resourceType, sourceType, sourceId,
\* dryRun) is entered with n summaries; gl is the remote of the source
ProcessSummaryPolicies(build, n, resourceType, dryRun, gl) ==
    /\ summaryRun = NoSummaryRun
    /\ summaryRun' = [status |-> "running", build |-> build, n |-> n,
                      resourceType |-> resourceType, dryRun |-> dryRun,
                      gitlab |-> gl, idx |-> 1,
                      summary |-> NoPolicy, last |-> NoPass]
    /\ UNCHANGED <<varsBase, varsTok, varsRun, varsComment, varsHook, varsProject, varsLast>>

\* the call in progress after the pass of the policy at idx
afterSummary(call, summary, done) ==
    [call EXCEPT !.summary = summary,
                 !.last = done,
                 !.gitlab = done.gitlab,
                 !.idx = @ + 1,
                 !.status = IF done.threw THEN "threw"
                            ELSE IF call.idx = call.n THEN "returned"
                            ELSE "running"]

\* one pass of the loop over the summaries; summary is the policy at idx.
\* Nothing catches a raise: it leaves processSummaryPolicies
ProcessNextSummary(summary, failAt) ==
    /\ summaryRun.status = "running"
    /\ summaryRun' =
          afterSummary(summaryRun, summary,
                       processSummary(summary, summaryRun.build, summaryRun.resourceType,
                                      summaryRun.dryRun, summaryRun.gitlab, failAt))
    /\ UNCHANGED <<varsBase, varsTok, varsRun, varsComment, varsHook, varsProject, varsLast>>

NextSummary ==
    \/ \E build \in Builds, n \in 1..MaxSummaries, dryRun \in BOOLEAN,
          resources \in ResourceLists :
          \E rejects \in RejectSets(resources) :
              ProcessSummaryPolicies(build, n, "issue", dryRun,
                                     RemoteRejecting(resources, rejects))
    \/ \E summary \in SummaryPolicies, failAt \in 0..MaxSubRules :
          ProcessNextSummary(summary, failAt)

\* ------------------------------------------------------------- the extension cache
\* One ActionExecutor over its life: calls of registerExtension and of
\* execute in any order, registerExtension also between two awaits of a
\* running execute. extensionLoaded maps an alias to the instance stored
\* under it; instances are numbered in the order of their construction.
MaxCacheCalls == 3   \* calls of registerExtension and execute on one executor

\* an argument left out of the call
jsMissing == "undefined"

\* !x for the arguments of registerExtension
notGiven(x) == x \in {jsMissing, ""}

\* classes handed to registerExtension: one with a constructor and a run
\* method, none, and a value that cannot be constructed
ExtensionClasses == {"StaleBot", jsMissing, "not a constructor"}

CacheAliases == {"stale_bot", "triage_bot", "", jsMissing}

\* registerExtension that stores whatever it is handed
registerExtensionUnchecked(this, extensionClass, alias) ==
    [this EXCEPT
        !.extensionLoaded = [a \in DOMAIN @ \cup {alias} |->
                                IF a = alias THEN this.made + 1 ELSE @[a]],
        !.made = @ + 1,
        !.calls = @ + 1,
        !.last = [op |-> "registerExtension", threw |-> FALSE,
                  extensionClass |-> extensionClass, alias |-> alias]]

\* registerExtension(extensionClass, alias): the executor after the call
registerExtension(this, extensionClass, alias) ==
    IF notGiven(extensionClass) \/ notGiven(alias)
       \/ extensionClass = "not a constructor"
    THEN [this EXCEPT
            !.calls = @ + 1,
            !.last = [op |-> "registerExtension", threw |-> TRUE,
                      extensionClass |-> extensionClass, alias |-> alias]]
    ELSE [this EXCEPT
            !.extensionLoaded = [a \in DOMAIN @ \cup {alias} |->
                                    IF a = alias THEN this.made + 1 ELSE @[a]],
            !.made = @ + 1,
            !.calls = @ + 1,
            !.last = [op |-> "registerExtension", threw |-> FALSE,
                      extensionClass |-> extensionClass, alias |-> alias]]

\* the executor after one action of a running execute: step is what
\* executeStep left; an imported module was instantiated for the resource
cacheAfterStep(this, step) ==
    [this EXCEPT
        !.frame = step.exec,
        !.gitlab = step.gitlab,
        !.made = IF step.exec.trace[Len(step.exec.trace)].via = "imported"
                 THEN @ + 1 ELSE @,
        !.last = [op |-> "execute", threw |-> step.exec.status = "threw",
                  extensionClass |-> jsMissing, alias |-> jsMissing]]

\* action maps that end in an extension: a registered alias, a module that
\* import() finds, a module it does not find
CacheActionMaps ==
    {<<<<"extension", "stale_bot">>>>, <<<<"extension", "./ext.js">>>>,
     <<<<"extension", "./gone.js">>>>,
     <<<<"labels", <<lblUrgent>>>>, <<"extension", "./ext.js">>>>}

\* new ActionExecutor(gitlab)
NewExecutor ==
    [extensionLoaded |-> <<>>, made |-> 0, calls |-> 0, frame |-> IdleFrame,
     gitlab |-> RemoteIdle,
     last |-> [op |-> "new", threw |-> FALSE,
               extensionClass |-> jsMissing, alias |-> jsMissing]]

InitCache == executor = NewExecutor

CacheRegister(extensionClass, alias) ==
    /\ executor.calls < MaxCacheCalls
    /\ executor' = registerExtension(executor, extensionClass, alias)
    /\ UNCHANGED <<varsBase, varsTok, varsRun, varsComment, varsHook, varsProject, varsSummary, varsManager>>

\* execute(actions, resources, 'issue', dryRun) is entered
CacheExecute(actions, resources, dryRun) ==
    /\ executor.calls < MaxCacheCalls
    /\ executor.frame.status # "running"
    /\ executor' = [executor EXCEPT
                       !.frame = startExecute(actions, resources, "issue", dryRun),
                       !.gitlab = RemoteOf(resources),
                       !.calls = @ + 1,
                       !.last = [op |-> "execute", threw |-> FALSE,
                                 extensionClass |-> jsMissing, alias |-> jsMissing]]
    /\ UNCHANGED <<varsBase, varsTok, varsRun, varsComment, varsHook, varsProject, varsSummary, varsManager>>

\* one action of the running execute, up to its next await
CacheStep ==
    /\ executor.frame.status = "running"
    /\ executor' = cacheAfterStep(executor,
                                  executeStep(executor.frame, executor.gitlab,
                                              DOMAIN executor.extensionLoaded))
    /\ UNCHANGED <<varsBase, varsTok, varsRun, varsComment, varsHook, varsProject, varsSummary, varsManager>>

NextCache ==
    \/ \E extensionClass \in ExtensionClasses, alias \in CacheAliases :
          CacheRegister(extensionClass, alias)
    \/ \E actions \in CacheActionMaps, resources \in ResourceLists \ {<<>>},
          dryRun \in BOOLEAN : CacheExecute(actions, resources, dryRun)
    \/ CacheStep

\* ------------------------------------------------------------- PlatinumTriageHookManager
\* The repository holds two bodies of the hook manager: the one in
\* src/index.js awaits loadConfig in init and reads the event header with
\* headers.get(), the one in src/hooks.js stores what the async loadConfig
\* returns, a Promise, and reads the header as a property.
MaxHooks == 2        \* hooks of a policy file

ManagerBuilds == {"index.js", "hooks.js"}

\* a hook of resource_rules.hooks; command <<>> stands for no command field
Hook(on, use_command_framework, command) ==
    [on |-> on, use_command_framework |-> use_command_framework,
     command |-> command, hasActions |-> TRUE]

HookPool ==
    {Hook("note", TRUE, strTo), Hook("note", FALSE, strTo), Hook("note", TRUE, <<>>),
     Hook("issue", FALSE, <<>>), Hook("push", FALSE, <<>>)}

\* this.config: undefined before init, the object loadConfig resolves to,
\* or the Promise of it
NoConfig ==
    [form |-> "undefined", bot_username |-> strBot, hasHooks |-> FALSE, hooks |-> <<>>,
     allow_on_hooks |-> FALSE]

PolicyFiles ==
    {[form |-> "object", bot_username |-> strBot, hasHooks |-> h # <<>>, hooks |-> h,
      allow_on_hooks |-> a] :
        h \in SeqsUpTo(HookPool, 0, MaxHooks), a \in BOOLEAN}

\* the headers argument: left out, a string, a Headers object (get() finds
\* a header whatever its case, a property read finds none) or a plain object
\* keyed 'X-GITLAB-EVENT' (no get method); carries says the event header is
\* in it
EventHeaders ==
    {[form |-> "undefined", carries |-> FALSE], [form |-> "string", carries |-> FALSE]}
    \cup {[form |-> f, carries |-> c] : f \in {"Headers", "plain"}, c \in BOOLEAN}

\* the restBody argument; object_kind "" and target "none" stand for fields
\* left out
NoBody ==
    [form |-> "undefined", object_kind |-> "", event_type |-> "", username |-> <<>>,
     note |-> <<>>, target |-> "none"]

RestBodies ==
    {NoBody, [NoBody EXCEPT !.form = "string"]}
    \cup {[form |-> "object", object_kind |-> k, event_type |-> e, username |-> u,
           note |-> n, target |-> t] :
            k \in {"", "event"}, e \in {"issue", "merge_request", "note", "push"},
            u \in {strBot, strAlice},
            n \in {<<"@">> \o strBot \o <<" ">> \o strTo, strTo},
            t \in {"issue", "none"}}

\* a property of this.config: a Promise has none of the fields of the file
configHooks(config) ==
    IF config.form = "object" /\ config.hasHooks THEN config.hooks ELSE <<>>

configHasHooks(config) == config.form = "object" /\ config.hasHooks

\* restBody.user.username === this.config.bot_username
isBotNote(this, restBody) ==
    this.config.form = "object" /\ restBody.username = this.config.bot_username

\* getHooks(restBody, event_type)
getHooks(this, event_type) ==
    SelectSeq(configHooks(this.config), LAMBDA x : x.on = event_type)

\* what a call left: returned or threw, and the calls it made on the
\* command framework, the resource processor, the rules and the actions
Handled(status, effects) == [status |-> status, effects |-> effects]

\* the for loop of executeNoteHook from the i-th hook on; found says that
\* loadResourceByIid resolves to a resource
RECURSIVE noteHooksFrom(_, _, _, _, _, _)
noteHooksFrom(this, restBody, hooks, i, effects, found) ==
    IF i > Len(hooks) THEN Handled("returned", effects)
    ELSE IF ~hooks[i].use_command_framework
         THEN noteHooksFrom(this, restBody, hooks, i + 1, effects, found)
    ELSE IF hooks[i].command = <<>> \/ parseTokens(hooks[i].command).threw
         THEN Handled("threw", effects)
    ELSE LET cf == [constructed |-> TRUE, bot_username |-> this.config.bot_username,
                    command |-> hooks[i].command, prefix |-> TRUE,
                    tokens |-> parseTokens(hooks[i].command).tokens]
             matched == handleInput(cf, restBody.note) # null
             loads == matched /\ restBody.target # "none"
             acts == loads /\ found /\ hooks[i].hasActions
         IN noteHooksFrom(this, restBody, hooks, i + 1,
                          effects \o <<"handleInput">>
                          \o (IF loads THEN <<"loadResourceByIid">> ELSE <<>>)
                          \o (IF acts THEN <<"executeHookActions">> ELSE <<>>),
                          found)

\* an executeNoteHook without the return for the notes of the bot
executeNoteHookAnyAuthor(this, restBody, found) ==
    noteHooksFrom(this, restBody, getHooks(this, "note"), 1, <<>>, found)

\* executeNoteHook(restBody)
executeNoteHook(this, restBody, found) ==
    IF isBotNote(this, restBody) THEN Handled("returned", <<>>)
    ELSE noteHooksFrom(this, restBody, getHooks(this, "note"), 1, <<>>, found)

\* executeIssueHook / executeMergeRequestHook of src/index.js: the normal
\* rules when allow_on_hooks is set, then executeResourceHook for each hook
\* of the event type (it loads the resource and executes the actions)
executeResourceHooks(this, restBody, resourceType, found) ==
    LET hooks == getHooks(this, resourceType)
        each == <<"loadResourceByIid">>
                \o (IF found THEN <<"executeHookActions">> ELSE <<>>)
    IN Handled("returned",
               (IF resourceType = "issue" /\ this.config.allow_on_hooks
                THEN <<"processSpecificResource">> ELSE <<>>)
               \o Flatten([i \in 1..Len(hooks) |-> each]))

\* the switch of handleEvent in src/index.js
dispatchEvent(this, restBody, found) ==
    CASE restBody.event_type = "issue" -> executeResourceHooks(this, restBody, "issue", found)
      [] restBody.event_type = "merge_request" ->
             executeResourceHooks(this, restBody, "merge_request", found)
      [] restBody.event_type = "note" -> executeNoteHook(this, restBody, found)
      [] OTHER -> Handled("returned", <<>>)

\* handleEvent behind its three checks in src/hooks.js: find() gives one hook
\* or undefined, hooks.length raises on undefined; executeIssueHook loads
\* the resource and raises at for...of over the hook; the class has no
\* executeMergeRequestHook and no executeNoteHook
dispatchEventHooksJs(this, restBody) ==
    IF ~configHasHooks(this.config) THEN Handled("returned", <<>>)
    ELSE IF getHooks(this, restBody.event_type) = <<>> THEN Handled("threw", <<>>)
    ELSE CASE restBody.event_type = "issue" -> Handled("threw", <<"loadResourceByIid">>)
           [] restBody.event_type \in {"merge_request", "note"} -> Handled("threw", <<>>)
           [] OTHER -> Handled("returned", <<>>)

\* a handleEvent without its three checks
handleEventUnchecked(this, headers, restBody, found) ==
    IF this.build = "index.js" THEN dispatchEvent(this, restBody, found)
    ELSE dispatchEventHooksJs(this, restBody)

\* handleEvent(headers, restBody)
handleEvent(this, headers, restBody, found) ==
    IF this.config.form = "undefined" THEN Handled("threw", <<>>)
    ELSE IF headers.form \in {"undefined", "string"} THEN Handled("threw", <<>>)
    ELSE IF this.build = "index.js" /\ (headers.form = "plain" \/ ~headers.carries)
         THEN Handled("threw", <<>>)
    ELSE IF this.build = "hooks.js" /\ (headers.form = "Headers" \/ ~headers.carries)
         THEN Handled("threw", <<>>)
    ELSE IF restBody.form # "object" \/ restBody.object_kind = ""
         THEN Handled("threw", <<>>)
    ELSE IF this.build = "index.js" THEN dispatchEvent(this, restBody, found)
    ELSE dispatchEventHooksJs(this, restBody)

\* init(policiesFile): loaded is what loadConfig resolves to, loadFails that
\* it rejects
init(this, loaded, loadFails) ==
    IF this.build = "index.js"
    THEN IF loadFails THEN [this EXCEPT !.status = "init threw"]
         ELSE [this EXCEPT !.status = "ready", !.config = loaded]
    ELSE [this EXCEPT !.status = "ready", !.config = [loaded EXCEPT !.form = "promise"]]

\* new PlatinumTriageHookManager(...)
NewManager(build) ==
    [status |-> "new", build |-> build, config |-> NoConfig,
     headers |-> [form |-> "undefined", carries |-> FALSE], restBody |-> NoBody,
     effects |-> <<>>]

NoManager == [status |-> "none"]

InitManager == manager = NoManager

ManagerNew(build) ==
    /\ manager = NoManager
    /\ manager' = NewManager(build)
    /\ UNCHANGED <<varsBase, varsTok, varsRun, varsComment, varsHook, varsProject, varsSummary, varsCache>>

ManagerInit(loaded, loadFails) ==
    /\ manager.status = "new"
    /\ manager' = init(manager, loaded, loadFails)
    /\ UNCHANGED <<varsBase, varsTok, varsRun, varsComment, varsHook, varsProject, varsSummary, varsCache>>

HandleEvent(headers, restBody, found) ==
    /\ manager.status \in {"new", "init threw", "ready"}
    /\ manager' = LET done == handleEvent(manager, headers, restBody, found)
                  IN [manager EXCEPT !.status = done.status, !.effects = done.effects,
                                     !.headers = headers, !.restBody = restBody]
    /\ UNCHANGED <<varsBase, varsTok, varsRun, varsComment, varsHook, varsProject, varsSummary, varsCache>>

NextManager ==
    \/ \E build \in ManagerBuilds : ManagerNew(build)
    \/ \E loaded \in PolicyFiles, loadFails \in BOOLEAN : ManagerInit(loaded, loadFails)
    \/ \E headers \in EventHeaders, restBody \in RestBodies, found \in BOOLEAN :
          HandleEvent(headers, restBody, found)

\* ------------------------------------------------------------- properties

\* a is b with some elements left out, the order kept
RECURSIVE IsSubSequence(_, _)
IsSubSequence(a, b) ==
    IF a = <<>> THEN TRUE
    ELSE IF b = <<>> THEN FALSE
    ELSE IF Head(a) = Head(b) THEN IsSubSequence(Tail(a), Tail(b))
    ELSE IsSubSequence(a, Tail(b))

\* C1: with dryRun true, no call of execute and no call of executeSummary
\* makes the remote receive a write, whatever the actions, resources and type.
C1_DryRunIssuesNoRemoteWrite ==
    /\ (exec.status # "idle" /\ exec.dryRun) => gitlab.calls = <<>>
    /\ (summaryCall # NoCall /\ summaryCall.dryRun) => gitlab.calls = <<>>

\* C1 witness: a dry run has returned after calling addLabels and one more
\* action function on each of two resources
C1_Witness ==
    /\ exec.status = "returned" /\ exec.dryRun
    /\ Len(exec.resources) >= 2
    /\ \A i \in 1..Len(exec.resources) :
          /\ \E k \in 1..Len(exec.trace) :
                exec.trace[k].idx = i /\ exec.trace[k].action = "labels"
          /\ \E k \in 1..Len(exec.trace) :
                exec.trace[k].idx = i /\ exec.trace[k].action # "labels"

\* C2: at every point of the same call of execute, the resource the dry run
\* threads to the next action has the labels and the state of the resource
\* the live run threads to it.
C2_DryRunThreadsSameResource ==
    (/\ pairDry.exec.status # "idle"
     /\ pairDry.exec.idx = pairLive.exec.idx
     /\ pairDry.exec.pos = pairLive.exec.pos) =>
        /\ pairDry.exec.resource.labels = pairLive.exec.resource.labels
        /\ pairDry.exec.resource.state = pairLive.exec.resource.state

\* the order of the actions as the specification lists it
C3_ClaimedOrder ==
    <<"labels", "remove_labels", "status", "mention", "move", "comment",
      "delete", "assignee", "reviewer", "merge", "extension">>

C3_Rank(kind) == CHOOSE n \in 1..Len(C3_ClaimedOrder) : C3_ClaimedOrder[n] = kind

\* C3: the action functions execute calls come resource after resource and,
\* for one resource, in the listed order whatever the key order of the map;
\* move runs on issues only, delete on branches only, reviewer and merge on
\* merge requests only; a run that ended normally skipped no configured action.
C3_FixedActionPrecedence ==
    /\ \A i, j \in 1..Len(exec.trace) :
          i < j =>
             \/ exec.trace[i].idx < exec.trace[j].idx
             \/ /\ exec.trace[i].idx = exec.trace[j].idx
                /\ C3_Rank(exec.trace[i].action) < C3_Rank(exec.trace[j].action)
    /\ \A i \in 1..Len(exec.trace) :
          /\ HasAction(exec.actions, exec.trace[i].action)
          /\ exec.trace[i].action = "move" => exec.resourceType = "issue"
          /\ exec.trace[i].action = "delete" => exec.resourceType = "branch"
          /\ exec.trace[i].action \in {"reviewer", "merge"} =>
                exec.resourceType = "merge_request"
    /\ (/\ exec.status = "returned"
        /\ \A i \in 1..Len(exec.trace) : exec.trace[i].via # "registered") =>
          \A r \in 1..Len(exec.resources), a \in 1..Len(exec.actions) :
             (/\ exec.actions[a][1] = "move" => exec.resourceType = "issue"
              /\ exec.actions[a][1] = "delete" => exec.resourceType = "branch"
              /\ exec.actions[a][1] \in {"reviewer", "merge"} =>
                    exec.resourceType = "merge_request") =>
                \E k \in 1..Len(exec.trace) :
                   exec.trace[k].idx = r /\ exec.trace[k].action = exec.actions[a][1]

\* C3 witness: a call whose action map lists a later action before an earlier
\* one has returned after applying both to each of two resources
C3_Witness ==
    /\ exec.status = "returned"
    /\ Len(exec.resources) >= 2
    /\ Len(exec.actions) >= 2
    /\ C3_Rank(exec.actions[1][1]) > C3_Rank(exec.actions[2][1])
    /\ Len(exec.trace) = 2 * Len(exec.resources)

NoDuplicates(s) == \A i, j \in 1..Len(s) : i # j => s[i] # s[j]

\* C4: once addLabels has run on the resource of the current iteration, the
\* labels of the resource execute holds, of the object the caller passed and
\* of every labels edit sent for it hold no label twice.
C4_NoDuplicateLabelsAfterAdd ==
    (/\ exec.status # "idle"
     /\ \E k \in 1..Len(exec.trace) :
           exec.trace[k].idx = exec.idx /\ exec.trace[k].action = "labels") =>
        /\ NoDuplicates(exec.resource.labels)
        /\ NoDuplicates(exec.resources[exec.idx].labels)
        /\ \A c \in 1..Len(gitlab.calls) :
              (/\ gitlab.calls[c].op = "edit" /\ gitlab.calls[c].field = "labels"
               /\ gitlab.calls[c].id = exec.resource.id) =>
                 NoDuplicates(gitlab.calls[c].labels)

\* C5: for a rule with most_recent N or oldest N, processRule hands execute
\* the resources that pass the conditions, sorted by created_at and cut to N.
C5_LimitBoundsResourcesHanded ==
    (/\ ruleCall.op = "processRule" /\ ruleCall.executes
     /\ ruleCall.rule.limits.kind \in {"most_recent", "oldest"}) =>
        /\ Len(ruleCall.handed) <= ruleCall.rule.limits.n
        /\ ruleCall.handed =
              applyLimits(filterResources(ruleCall.resources, ruleCall.rule.conditions,
                                          customFilters).list,
                          ruleCall.rule.limits).result
        /\ exec.resources = ruleCall.handed \/ exec.trace # <<>>

\* C6: applyLimits with most_recent N (oldest N) returns min(N, length)
\* resources of the list, ordered by descending (ascending) created_at, and
\* no resource left out is newer (older) than a returned one.
C6_LimitSelectsNewestOrOldest ==
    (limPc = "returned" /\ limLimits.kind \in {"most_recent", "oldest"}) =>
        LET desc == limLimits.kind = "most_recent"
            after(x, y) == IF desc THEN x.created_at >= y.created_at
                           ELSE x.created_at <= y.created_at
        IN /\ Len(limResult) = Min(limLimits.n, Len(limInput))
           /\ Range(limResult) \subseteq Range(limInput)
           /\ Cardinality(Ids(limResult)) = Len(limResult)
           /\ \A i, j \in 1..Len(limResult) : i < j => after(limResult[i], limResult[j])
           /\ \A r \in Range(limResult), e \in Range(limInput) :
                 e.id \notin Ids(limResult) => after(r, e)

\* C6 witness: a most_recent call on a list longer than N that was not in
\* descending order, with a tie of creation times, has returned
C6_Witness ==
    /\ limPc = "returned" /\ limLimits.kind = "most_recent"
    /\ Len(limInput) > limLimits.n
    /\ \E i, j \in 1..Len(limInput) :
          i < j /\ limInput[i].created_at < limInput[j].created_at
    /\ \E i, j \in 1..Len(limInput) :
          i # j /\ limInput[i].created_at = limInput[j].created_at

\* C7: no call of applyLimits changes the list it is given.
C7_InputListUnchanged == [][limInput' = limInput]_vars

\* C7 witness: a call with a limit has returned for a list that sorting
\* would reorder
C7_Witness ==
    /\ limPc = "returned" /\ limLimits.kind = "oldest"
    /\ \E i, j \in 1..Len(limInput) :
          i < j /\ limInput[i].created_at > limInput[j].created_at

\* what the evaluation of a condition comes to: the boolean returned, and for
\* the asynchronous author_member lookup the boolean its promise settles to
ConditionHolds(val) ==
    IF val.t = "bool" THEN val.v
    ELSE val.t = "promise" /\ val.settled = "resolved" /\ val.v

\* C8: evaluateConditions returns true iff every configured condition kind
\* evaluates to true for the resource; filterResources with an empty map
\* returns every input resource, and always a sub-sequence of its input.
C8_AllConditionsMustHold ==
    /\ peCall.op = "evaluateConditions" =>
          ((peCall.result = BoolVal(TRUE)) <=>
             \A i \in 1..Len(peCall.conditions) :
                ConditionHolds(evaluateCondition(peCall.resource,
                    peCall.conditions[i][1], peCall.conditions[i][2], customFilters)))
    /\ peCall.op = "filterResources" =>
          /\ ~peCall.result.threw
          /\ IsSubSequence(peCall.result.list, peCall.resources)
          /\ Len(peCall.conditions) = 0 => peCall.result.list = peCall.resources

\* C9: a kind outside the switch gives the registered predicate's result, or
\* false when none is registered; a built-in kind gives the built-in result
\* whatever is registered under its name. No call with a kind outside the
\* switch raises.
C9_CustomPredicateFallback ==
    peCall.op = "evaluateCondition" =>
        /\ peCall.kind \notin BuiltinKinds => peCall.result.t # "throw"
        /\ peCall.kind \notin BuiltinKinds =>
              peCall.result =
                 IF peCall.kind \in DOMAIN customFilters
                 THEN callFilter(customFilters[peCall.kind], peCall.resource, peCall.value)
                 ELSE BoolVal(FALSE)
        /\ peCall.kind \in BuiltinKinds =>
              peCall.result =
                 evaluateCondition(peCall.resource, peCall.kind, peCall.value, <<>>)

\* C9 witness: a state condition was evaluated while a predicate that gives
\* the opposite answer is registered under the name state
C9_Witness ==
    /\ peCall.op = "evaluateCondition" /\ peCall.kind = "state"
    /\ "state" \in DOMAIN customFilters
    /\ callFilter(customFilters["state"], peCall.resource, peCall.value) # peCall.result

\* C10: a labels condition without None or Any holds iff every entry with a
\* brace group has one of its expansions among the resource's labels and
\* every entry without one is a label of the resource.
C10_GroupsAndLiteralsBothRequired ==
    (/\ peCall.op = "evaluateCondition" /\ peCall.kind = "labels"
     /\ ~Includes(peCall.value, strNone) /\ ~Includes(peCall.value, strAny)) =>
        ((peCall.result = BoolVal(TRUE)) <=>
           \A k \in 1..Len(peCall.value) :
              IF Includes(peCall.value[k], "{")
              THEN \E e \in Range(stringToArray(peCall.value[k])) :
                      Includes(peCall.resource.labels, e)
              ELSE Includes(peCall.resource.labels, peCall.value[k]))

\* C11 as stated: a list with Any holds iff the resource has a label, and a
\* list with None holds iff it has none, whatever else the list contains.
C11_SentinelsDecideAlone ==
    (peCall.op = "evaluateCondition" /\ peCall.kind = "labels") =>
        /\ Includes(peCall.value, strAny) =>
              (peCall.result = BoolVal(TRUE) <=> Len(peCall.resource.labels) > 0)
        /\ Includes(peCall.value, strNone) =>
              (peCall.result = BoolVal(TRUE) <=> Len(peCall.resource.labels) = 0)

\* C11 amended: a list with None holds iff the resource has no label; a list
\* with Any and without None holds iff the resource has at least one label;
\* the other entries of the list and the content of the labels do not count.
C11_NoneBeforeAny ==
    (peCall.op = "evaluateCondition" /\ peCall.kind = "labels") =>
        /\ Includes(peCall.value, strNone) =>
              (peCall.result = BoolVal(TRUE) <=> Len(peCall.resource.labels) = 0)
        /\ (Includes(peCall.value, strAny) /\ ~Includes(peCall.value, strNone)) =>
              (peCall.result = BoolVal(TRUE) <=> Len(peCall.resource.labels) > 0)

\* C11 witness: a list of Any and a label the resource does not carry was
\* evaluated on a labelled resource and held
C11_Witness ==
    /\ peCall.op = "evaluateCondition" /\ peCall.kind = "labels"
    /\ Includes(peCall.value, strAny)
    /\ \E k \in 1..Len(peCall.value) :
          /\ peCall.value[k] \notin {strAny, strNone}
          /\ ~Includes(peCall.resource.labels, peCall.value[k])
    /\ Len(peCall.resource.labels) > 0
    /\ peCall.result = BoolVal(TRUE)

\* minutes in one unit of a date condition
C12_MinutesIn(interval_type) ==
    CASE interval_type = "minutes" -> 1
      [] interval_type = "hours" -> 60
      [] interval_type = "days" -> 60 * 24
      [] interval_type = "weeks" -> 60 * 24 * 7
      [] interval_type = "months" -> 60 * 24 * 30
      [] interval_type = "years" -> 60 * 24 * 365
      [] OTHER -> 1

\* C12: a date condition is false when the resource lacks the attribute or
\* the unit or the comparison is unknown; otherwise older_than holds iff at
\* least interval full units have elapsed since the timestamp, and newer_than
\* iff fewer than interval + 1 full units have.
C12_DateThresholds ==
    (peCall.op = "evaluateCondition" /\ peCall.kind = "date") =>
        LET c == peCall.value
            known == /\ c.attribute \in DOMAIN peCall.resource
                     /\ c.interval_type \in
                           {"minutes", "hours", "days", "weeks", "months", "years"}
                     /\ c.condition \in {"older_than", "newer_than"}
            elapsed == 60 * (Now - peCall.resource[c.attribute])
            unit == C12_MinutesIn(c.interval_type)
        IN peCall.result =
              BoolVal(known /\ IF c.condition = "older_than"
                               THEN elapsed >= c.interval * unit
                               ELSE elapsed < (c.interval + 1) * unit)

\* C12 witness: a timestamp six days and 23 hours old was found not
\* older_than 7 days
C12_Witness ==
    /\ peCall.op = "evaluateCondition" /\ peCall.kind = "date"
    /\ peCall.value.attribute = "created_at"
    /\ peCall.value.condition = "older_than"
    /\ peCall.value.interval_type = "days" /\ peCall.value.interval = 7
    /\ Now - peCall.resource.created_at = 6 * 24 + 23
    /\ peCall.result = BoolVal(FALSE)

\* every author_member condition of the map finds the author of the
\* resource among the members of the configured group
C13_AuthorIsMember(resource, conditions) ==
    \A i \in 1..Len(conditions) :
       conditions[i][1] = "author_member" =>
          ConditionHolds(evaluateAuthorMemberCondition(resource, conditions[i][2]))

\* C13: evaluateConditions is false for a resource whose author the
\* membership lookup of an author_member condition does not find, and
\* filterResources returns no such resource.
C13_MemberLookupDecides ==
    /\ peCall.op = "evaluateConditions" =>
          (~C13_AuthorIsMember(peCall.resource, peCall.conditions) =>
              peCall.result = BoolVal(FALSE))
    /\ (peCall.op = "filterResources" /\ ~peCall.result.threw) =>
          \A i \in 1..Len(peCall.result.list) :
             C13_AuthorIsMember(peCall.result.list[i], peCall.conditions)

\* C14: a rule with an author_member condition on a source other than group
\* ends in an error at processRule: nothing is handed to execute and no
\* resource is acted on.
C14_UnsupportedSourceStopsRule ==
    (/\ ruleCall.op = "processRule"
     /\ Len(ruleCall.resources) # 0
     /\ \E i \in 1..Len(ruleCall.rule.conditions) :
           /\ ruleCall.rule.conditions[i][1] = "author_member"
           /\ ruleCall.rule.conditions[i][2].source \notin {"", "group"}
           /\ ruleCall.rule.conditions[i][2].source_id # 0
           /\ ruleCall.rule.conditions[i][2].condition # "") =>
        /\ ruleCall.threw
        /\ ~ruleCall.executes
        /\ exec.status = "idle"
        /\ gitlab.calls = <<>>

\* C15: evaluating a js condition returns a value for every resource and
\* expression, and false when the evaluation of the expression fails.
C15_JsNeverRaises ==
    (peCall.op = "evaluateCondition" /\ peCall.kind = "js") =>
        /\ peCall.result.t = "bool"
        /\ peCall.value \in JsFailing => peCall.result = BoolVal(FALSE)

\* ---- C16 ----
\* the tokens walked by the last call of match took consecutive stretches of
\* the input words, the first starting at the first word
TraceIsConsecutive(trace) ==
    \A k \in 1..Len(trace) :
        /\ trace[k].from = (IF k = 1 THEN 0 ELSE trace[k - 1].to)
        /\ trace[k].from <= trace[k].to

\* C16: match returns a successful result only if every token was walked and
\* the stretches the tokens took cover every input word, each literal token
\* taking exactly one word equal to its value; a call that leaves a trailing
\* input word over, or meets a literal token with no equal input word at its
\* position, returns null.
C16_MatchConsumesAllInput ==
    cmdCall.op = "match" =>
        LET tokens == framework.tokens
            inputWords == cmdCall.run.inputWords
            loop == cmdCall.run.loop
        IN /\ TraceIsConsecutive(loop.trace)
           /\ cmdCall.result # null =>
                 /\ Len(loop.trace) = Len(tokens)
                 /\ (IF tokens = <<>> THEN 0 ELSE loop.trace[Len(tokens)].to)
                        = Len(inputWords)
                 /\ \A k \in 1..Len(tokens) :
                        tokens[k].type = "literal" =>
                            /\ loop.trace[k].to = loop.trace[k].from + 1
                            /\ inputWords[loop.trace[k].from + 1] = tokens[k].value
           /\ (~loop.returned /\ loop.inputIndex < Len(inputWords))
                 => cmdCall.result = null
           /\ \A k \in 1..Len(tokens) :
                 (/\ tokens[k].type = "literal"
                  /\ Len(loop.trace) = k - 1
                  /\ \/ loop.inputIndex >= Len(inputWords)
                     \/ inputWords[loop.inputIndex + 1] # tokens[k].value)
                 => cmdCall.result = null

\* a call of match that walked every token of a two-token pattern and
\* returned null because an input word was left over
C16_Witness ==
    /\ cmdCall.op = "match"
    /\ Len(framework.tokens) = 2
    /\ ~cmdCall.run.early
    /\ ~cmdCall.run.loop.returned
    /\ cmdCall.run.loop.inputIndex < Len(cmdCall.run.inputWords)
    /\ cmdCall.result = null

\* ---- C17 ----
\* token k is the last token of tokens that is a variable named name
IsLastNamed(tokens, k, name) ==
    /\ tokens[k].type = "variable"
    /\ tokens[k].name = name
    /\ \A j \in (k + 1)..Len(tokens) :
           ~(tokens[j].type = "variable" /\ tokens[j].name = name)

C18_LabelsCaptureKeepsTilde ==
    /\ (/\ cmdCall.op = "match"
        /\ framework.command = cmdLabels
        /\ cmdCall.input = inputTwoLabels) =>
           /\ cmdCall.result # null
           /\ cmdCall.result.variables[strLabels]
                  = <<(<<"~">> \o lblBug), (<<"~">> \o lblUrgent)>>
    /\ (/\ cmdCall.op = "handleInput"
        /\ framework.command = cmdLabels
        /\ cmdCall.input = <<"@">> \o strBot \o <<" ">> \o inputTwoLabels) =>
           /\ cmdCall.result # null
           /\ cmdCall.result.variables[strLabels]
                  = <<(<<"~">> \o lblBug), (<<"~">> \o lblUrgent)>>

\* ---- C19 ----
\* C19: a variable token not named labels that is followed by a literal token
\* takes the input words from its position up to, and without, the first word
\* equal to that literal's value, or up to the end of the input when no word
\* is equal to it; a variable token not named labels with no literal after it
\* takes every remaining input word. A successful result holds the words
\* taken under the variable's name, in input order and with repetitions kept;
\* the list may be empty.
C19_VariableCapture ==
    cmdCall.op = "match" =>
        LET tokens == framework.tokens
            inputWords == cmdCall.run.inputWords
            trace == cmdCall.run.loop.trace
        IN \A k \in 1..Len(trace) :
               (tokens[k].type = "variable" /\ tokens[k].name # strLabels) =>
                  /\ IF k < Len(tokens) /\ tokens[k + 1].type = "literal"
                     THEN /\ \A i \in (trace[k].from + 1)..trace[k].to :
                                 inputWords[i] # tokens[k + 1].value
                          /\ \/ trace[k].to = Len(inputWords)
                             \/ inputWords[trace[k].to + 1] = tokens[k + 1].value
                     ELSE trace[k].to = Len(inputWords)
                  /\ (cmdCall.result # null /\ IsLastNamed(tokens, k, tokens[k].name)) =>
                         cmdCall.result.variables[tokens[k].name] =
                             SubSeq(inputWords, trace[k].from + 1, trace[k].to)

\* match of "{{...u}} to" on "bug bug to" has returned u = <<"bug", "bug">>:
\* a variable followed by a literal, a repeated word kept
C19_Witness ==
    /\ cmdCall.op = "match"
    /\ framework.command = joinWords(<<varU, strTo>>, <<" ">>)
    /\ cmdCall.input = joinWords(<<lblBug, lblBug, strTo>>, <<" ">>)
    /\ cmdCall.result # null
    /\ cmdCall.result.variables[<<"u">>] = <<lblBug, lblBug>>

\* ---- C20 ----
\* word has the exact shape {{...name}}, name a non-empty run of \w characters
HasExactShape(word) ==
    /\ Len(word) >= Len(strOpen) + 1 + Len(strClose)
    /\ SubSeq(word, 1, Len(strOpen)) = strOpen
    /\ SubSeq(word, Len(word) - Len(strClose) + 1, Len(word)) = strClose
    /\ \A i \in (Len(strOpen) + 1)..(Len(word) - Len(strClose)) :
           word[i] \in WordChars

\* C20: parseTokens makes one token per word of the pattern, in word order
\* and with positions 0, 1, 2, ...; the token is a variable token iff the
\* whole word has the exact shape {{...name}}, and every other word, one that
\* only contains the shape inside other characters included, gives a literal
\* token holding the word's text.
C20_VariableIffExactShape ==
    framework # NoFramework =>
        LET trimmedCommand == trim(framework.command)
            words == IF trimmedCommand = <<>> THEN <<>>
                     ELSE splitWhitespace(trimmedCommand)
            tokens == framework.tokens
        IN /\ Len(tokens) = Len(words)
           /\ \A k \in 1..Len(tokens) :
                  /\ tokens[k].position = k - 1
                  /\ IF HasExactShape(words[k])
                     THEN /\ tokens[k].type = "variable"
                          /\ tokens[k].name =
                                 SubSeq(words[k], Len(strOpen) + 1,
                                        Len(words[k]) - Len(strClose))
                     ELSE /\ tokens[k].type = "literal"
                          /\ tokens[k].value = words[k]

\* word holds, from position i on, "{{..." then n >= 1 \w characters then "}}"
HoldsShapeAt(word, i, n) ==
    /\ n >= 1
    /\ i + Len(strOpen) + n + Len(strClose) - 1 <= Len(word)
    /\ SubSeq(word, i, i + Len(strOpen) - 1) = strOpen
    /\ \A j \in (i + Len(strOpen))..(i + Len(strOpen) + n - 1) : word[j] \in WordChars
    /\ SubSeq(word, i + Len(strOpen) + n,
              i + Len(strOpen) + n + Len(strClose) - 1) = strClose

\* C20 (amended): parseTokens makes one token per word of the pattern, in
\* word order and with positions 0, 1, 2, ...; the token is a variable token
\* iff the word holds the shape {{...name}} somewhere, other characters
\* before or after it or not, and its name is the name of the leftmost such
\* shape; every other word gives a literal token holding the word's text.
C20_VariableIffContainsShape ==
    framework # NoFramework =>
        LET trimmedCommand == trim(framework.command)
            words == IF trimmedCommand = <<>> THEN <<>>
                     ELSE splitWhitespace(trimmedCommand)
            tokens == framework.tokens
        IN /\ Len(tokens) = Len(words)
           /\ \A k \in 1..Len(tokens) :
                  LET word == words[k]
                      holds == \E i, n \in 1..Len(word) : HoldsShapeAt(word, i, n)
                  IN /\ tokens[k].position = k - 1
                     /\ IF holds
                        THEN /\ tokens[k].type = "variable"
                             /\ \E i, n \in 1..Len(word) :
                                   /\ HoldsShapeAt(word, i, n)
                                   /\ \A i2, n2 \in 1..Len(word) :
                                          HoldsShapeAt(word, i2, n2) => i <= i2
                                   /\ tokens[k].name =
                                          SubSeq(word, i + Len(strOpen),
                                                 i + Len(strOpen) + n - 1)
                        ELSE /\ tokens[k].type = "literal"
                             /\ tokens[k].value = word

\* an object constructed from a pattern with the word "x{{...u}}", whose
\* token is a variable token named u
C20_Witness ==
    /\ framework # NoFramework
    /\ \E k \in 1..Len(framework.tokens) :
           /\ splitWhitespace(trim(framework.command))[k] = varInside
           /\ framework.tokens[k].type = "variable"
           /\ framework.tokens[k].name = <<"u">>

\* ---- C21 ----
\* C21: constructing a CommandFramework with the empty string, a blank-only
\* string or null as the command does not raise and gives an object with no
\* tokens; an object with no tokens returns null for every input that holds
\* a word.
C21_EmptyCommandConstructs ==
    /\ (cmdCall.op = "new" /\ cmdCall.input \in {<<>>, <<" ">>, argNull}) =>
           /\ ~cmdCall.threw
           /\ framework # NoFramework
           /\ framework.tokens = <<>>
    /\ (/\ cmdCall.op = "match"
        /\ framework.tokens = <<>>
        /\ isString(cmdCall.input)
        /\ trim(cmdCall.input) # <<>>) => cmdCall.result = null

\* ---- C22 ----
\* the text "@bot"
strMention == <<"@">> \o strBot

\* C22: match and handleInput return null for an argument that is null,
\* undefined, not a string, empty or blank-only; handleInput returns null
\* also for every message that does not start with "@" and the bot's
\* username, and for a message that holds the mention and nothing else but
\* blanks. Every call returns a value: null or a result.
C22_InvalidInputGivesNull ==
    cmdCall.op \in {"match", "handleInput"} =>
        /\ (cmdCall.result = null \/ cmdCall.result.matched)
        /\ cmdCall.input \in NonStrings => cmdCall.result = null
        /\ (isString(cmdCall.input) /\ trim(cmdCall.input) = <<>>)
               => cmdCall.result = null
        /\ (/\ cmdCall.op = "handleInput"
            /\ isString(cmdCall.input)
            /\ \/ Len(cmdCall.input) < Len(strMention)
               \/ SubSeq(cmdCall.input, 1, Len(strMention)) # strMention)
               => cmdCall.result = null
        /\ (/\ cmdCall.op = "handleInput"
            /\ isString(cmdCall.input)
            /\ \E blanks \in {<<>>, <<" ">>, <<" ", " ">>} :
                   cmdCall.input = strMention \o blanks)
               => cmdCall.result = null

\* handleInput of a message without the mention, whose words the pattern of
\* the object would match, has returned null
C22_Witness ==
    /\ cmdCall.op = "handleInput"
    /\ isString(cmdCall.input)
    /\ trim(cmdCall.input) # <<>>
    /\ Head(cmdCall.input) # "@"
    /\ match(framework.tokens, cmdCall.input) # null
    /\ cmdCall.result = null

C24_RuleFailureNeverAbortsRun ==
    /\ rulesRun.status # "threw"
    /\ rulesRun.status = "returned" =>
           /\ Len(rulesRun.outcomes) = Len(rulesRun.rules)
           /\ \A i \in 1..Len(rulesRun.outcomes) : rulesRun.outcomes[i].rule = i

\* ---- C25 ----
\* C25: when an action of a rule raised on one of the resources the rule
\* selected, the pass of the rule has still worked on every selected resource:
\* each of them has an action call of its own in the pass.
C25_LaterResourcesStillProcessed ==
    rulesRun.status # "idle" =>
        \A o \in 1..Len(rulesRun.outcomes) :
            rulesRun.outcomes[o].cause = "action" =>
                \A i \in 1..rulesRun.outcomes[o].selected :
                    \E t \in 1..Len(rulesRun.outcomes[o].trace) :
                        rulesRun.outcomes[o].trace[t].idx = i

\* ---- C26 ----
\* the resource passes the conditions: each of them holds of it, and the
\* authors an author_member condition asks for are members
C26_Passes(resource, conditions) ==
    /\ Truthy(evaluateConditions(resource, conditions, <<>>))
    /\ C13_AuthorIsMember(resource, conditions)

\* C26: the pass of a summary policy calls executeSummary at most once and
\* execute never; it calls executeSummary exactly when the policy has a
\* summarize action and one of its sub-rules has a summarize action and a
\* resource that passes its conditions.
C26_OneSummaryWhenSomeSubRuleMatches ==
    (summaryRun.status # "idle" /\ summaryRun.idx > 1) =>
        LET p == summaryRun.summary
            o == summaryRun.last
        IN /\ o.calls <= 1
           /\ o.executes = 0
           /\ o.calls = 1 <=>
                  /\ p.hasSummarize
                  /\ \E i \in 1..Len(p.rules) :
                        /\ HasAction(p.rules[i].actions, "summarize")
                        /\ \E k \in 1..Len(o.loaded) :
                              C26_Passes(o.loaded[k], p.rules[i].conditions)

\* ---- C27 ----
braceFree(s) == \A k \in 1..Len(s) : s[k] \notin {"{", "}", "\n"}

\* C27: in a template that holds one placeholder {{key}} between two texts
\* without braces, the placeholder is replaced once: {{author}} of a resource
\* with an author by '@' and the username, a placeholder whose key is not in
\* the table or whose value is null or absent by the empty string, and
\* {{title}} by the title as it stands, placeholders in the title included.
C27_PlaceholderReplacedOnce ==
    rendering.status = "returned" =>
        LET t == rendering.commentTemplate
            table == placeholders(rendering.resource)
        IN \A i \in 1..Len(t), j \in 1..Len(t) :
              LET pre == SubSeq(t, 1, i - 1)
                  key == SubSeq(t, i + 2, j - 1)
                  post == SubSeq(t, j + 2, Len(t))
              IN (/\ i + 2 <= j /\ j + 1 <= Len(t)
                  /\ SubSeq(t, i, i + 1) = strBraces /\ SubSeq(t, j, j + 1) = strBracesEnd
                  /\ braceFree(pre) /\ braceFree(key) /\ braceFree(post)) =>
                     /\ (key = strAuthor /\ rendering.resource.author.has) =>
                            rendering.result =
                                pre \o <<"@">> \o rendering.resource.author.username \o post
                     /\ (\/ key \notin DOMAIN table
                         \/ table[key].t \in {"null", "undefined"}) =>
                            rendering.result = pre \o post
                     /\ (key = strTitle /\ rendering.resource.title.t = "string") =>
                            rendering.result = pre \o rendering.resource.title.s \o post

\* ---- C28 ----
\* C28: with actions.extension naming a registered alias, a call of execute
\* that has returned called run of the registered instance once for each
\* resource of the list, in the order of the list, and imported no module.
C28_RegisteredAliasRunsForEachResource ==
    (/\ exec.status = "returned"
     /\ HasAction(exec.actions, "extension")
     /\ GetAction(exec.actions, "extension") \in extensionLoaded) =>
        LET runs == SelectSeq(exec.trace, LAMBDA t : t.action = "extension")
        IN /\ Len(runs) = Len(exec.resources)
           /\ \A i \in 1..Len(runs) : runs[i].idx = i /\ runs[i].via = "registered"

\* ---- C29 ----
PrecedenceIndex(kind) == CHOOSE i \in 1..Len(Precedence) : Precedence[i] = kind

\* C29: the action functions a call of executeHookActions has called were
\* called in the precedence of execute (labels, remove_labels, status,
\* mention, move, comment, assignee, reviewer, merge), whatever the key
\* order of the hook's action map.
C29_HookActionsInPrecedence ==
    hookCall.status # "idle" =>
        \A i, j \in 1..Len(hookCall.trace) :
            (i < j /\ hookCall.trace[i].called /\ hookCall.trace[j].called) =>
                PrecedenceIndex(hookCall.trace[i].action)
                    < PrecedenceIndex(hookCall.trace[j].action)

\* ---- C30 ----
\* C30: a processProject whose lookup was rejected or gave no project has
\* raised without a call of processResourceRules; one whose lookup gave a
\* project has called processResourceRules once, with the caller's config,
\* 'project', the id of the project found and the caller's dryRun.
C30_ProjectLookupGuardsRules ==
    projectCall.status # "idle" =>
        /\ projectCall.answer.settled = "pending" => projectCall.calls = <<>>
        /\ projectCall.answer.settled \in {"rejected", "null"} =>
               projectCall.status = "threw" /\ projectCall.calls = <<>>
        /\ projectCall.answer.settled = "project" =>
               projectCall.calls =
                   <<[config |-> projectCall.config, sourceType |-> "project",
                      sourceId |-> projectCall.answer.id, dryRun |-> projectCall.dryRun]>>

\* a dry run whose lookup by another key found project 2 has returned
C30_Witness ==
    /\ projectCall.status = "returned"
    /\ projectCall.answer = [settled |-> "project", id |-> 2]
    /\ projectCall.projectId = 1
    /\ projectCall.dryRun
    /\ Len(projectCall.calls) = 1

\* ---- C31 ----
\* the call of processRule was handed no resource, or filterResources
\* returned an empty array for the resources and the conditions of the rule
C31_NothingPasses ==
    /\ ruleCall.op = "processRule"
    /\ \/ Len(ruleCall.resources) = 0
       \/ LET filteredResources == filterResources(ruleCall.resources,
                                                   ruleCall.rule.conditions, customFilters)
          IN ~filteredResources.threw /\ Len(filteredResources.list) = 0

C32_RegisteredWithoutArgument ==
    /\ executor'.calls = executor.calls + 1
    /\ executor'.last.op = "registerExtension"
    /\ \/ notGiven(executor'.last.extensionClass)
       \/ notGiven(executor'.last.alias)

\* C32: the extension cache changes only in a call of registerExtension
\* that returns: no step of execute adds, replaces or removes an entry, also
\* not when it instantiates an imported module; an alias once registered
\* stays in the cache; and registerExtension without a class or without an
\* alias raises and leaves the cache as it was.
C32_CacheChangesOnlyByRegister ==
    [][/\ DOMAIN executor.extensionLoaded \subseteq DOMAIN executor'.extensionLoaded
       /\ executor'.extensionLoaded # executor.extensionLoaded =>
              /\ executor'.calls = executor.calls + 1
              /\ executor'.last.op = "registerExtension"
              /\ ~executor'.last.threw
       /\ C32_RegisteredWithoutArgument =>
              /\ executor'.last.threw
              /\ executor'.extensionLoaded = executor.extensionLoaded]_vars

\* C32 witness: an alias was registered, execute then imported a module and
\* instantiated it, and the last call, a registerExtension without alias,
\* raised: the cache holds the registered alias and nothing else
C32_Witness ==
    /\ DOMAIN executor.extensionLoaded = {"stale_bot"}
    /\ executor.frame.status = "returned"
    /\ \E t \in 1..Len(executor.frame.trace) : executor.frame.trace[t].via = "imported"
    /\ executor.made > 1
    /\ executor.last.op = "registerExtension"
    /\ executor.last.threw
    /\ executor.last.extensionClass = "StaleBot"
    /\ notGiven(executor.last.alias)

\* ---- C33 ----
\* the label lists the remote received in edits of the record id, in order
C33_LabelEdits(id) ==
    LET edits == SelectSeq(gitlab.calls,
                           LAMBDA c : c.op = "edit" /\ c.field = "labels" /\ c.id = id)
    IN [k \in 1..Len(edits) |-> edits[k].labels]

\* the lists the claim expects for a resource with the labels L: L followed
\* by the labels action, then that list without the labels of remove_labels
C33_Expected(L, actions) ==
    LET A == IF HasAction(actions, "labels") THEN GetAction(actions, "labels") ELSE <<>>
        R == IF HasAction(actions, "remove_labels")
             THEN GetAction(actions, "remove_labels") ELSE <<>>
        added == L \o A
        left == SelectSeq(added, LAMBDA x : ~Includes(R, x))
    IN (IF HasAction(actions, "labels") THEN <<added>> ELSE <<>>)
       \o (IF HasAction(actions, "remove_labels") THEN <<left>> ELSE <<>>)

\* C33: in a live run the label edits of a resource carry full lists that
\* chain: the edit of the labels action sends the labels the resource had
\* before the pass followed by the labels of the action, the edit of the
\* remove_labels action sends that list without every label of the action,
\* the others in their order; a pass that has ended by returning has sent
\* all of them.
C33_LabelEditsChain ==
    (exec.status # "idle" /\ ~exec.dryRun) =>
        \A i \in 1..Len(exec.resources) :
           LET id == exec.resources[i].id
               sent == C33_LabelEdits(id)
               expected == C33_Expected(PoolResource(id).labels, exec.actions)
           IN /\ Len(sent) <= Len(expected)
              /\ \A k \in 1..Len(sent) : sent[k] = expected[k]
              /\ (exec.status = "returned" /\ ~HasAction(exec.actions, "extension")) =>
                     sent = expected
              /\ (HasAction(exec.actions, "remove_labels") /\ Len(sent) = Len(expected)) =>
                     \A x \in Range(sent[Len(sent)]) :
                        ~Includes(GetAction(exec.actions, "remove_labels"), x)

\* C33 witness: a live pass with both actions has returned; the labels edit
\* of issue 1 sent bug, urg, urg and the remove_labels edit urg, urg
C33_Witness ==
    /\ exec.status = "returned" /\ ~exec.dryRun
    /\ Len(exec.resources) = 2
    /\ C33_LabelEdits(1) = <<<<lblBug, lblUrgent, lblUrgent>>, <<lblUrgent, lblUrgent>>>>

\* ---- C34 ----
\* C34: in a template that holds one placeholder {{key}} between two texts
\* without braces, a key of the table whose value on the resource is neither
\* null nor absent is replaced by the text of that value: {{upvotes}} of a
\* resource with 0 upvotes by 0.
C34_PresentValueRendersItsText ==
    rendering.status = "returned" =>
        LET t == rendering.commentTemplate
            table == placeholders(rendering.resource)
        IN \A i \in 1..Len(t), j \in 1..Len(t) :
              LET pre == SubSeq(t, 1, i - 1)
                  key == SubSeq(t, i + 2, j - 1)
                  post == SubSeq(t, j + 2, Len(t))
              IN (/\ i + 2 <= j /\ j + 1 <= Len(t)
                  /\ SubSeq(t, i, i + 1) = strBraces /\ SubSeq(t, j, j + 1) = strBracesEnd
                  /\ braceFree(pre) /\ braceFree(key) /\ braceFree(post)
                  /\ key \in DOMAIN table
                  /\ table[key].t \notin {"null", "undefined"}) =>
                     rendering.result = pre \o jsToString(table[key]) \o post

\* ---- C35 ----
\* C35: handleInput returns a match only for a message whose first word is
\* the mention, "@" and the bot's username: the message is the mention
\* alone or the mention is followed by a blank. A message in which more
\* characters follow the mention directly gives null.
C35_MentionIsAWholeWord ==
    (/\ cmdCall.op = "handleInput"
     /\ isString(cmdCall.input)
     /\ cmdCall.result # null) =>
        /\ startsWith(cmdCall.input, strMention)
        /\ \/ Len(cmdCall.input) = Len(strMention)
           \/ cmdCall.input[Len(strMention) + 1] = " "

\* ---- C36 ----
\* a call of handleEvent has ended
eventHandled == manager.status \in {"returned", "threw"}

\* the manager was initialised and the event passes the checks of
\* handleEvent: the headers, of the kind the body of handleEvent reads,
\* carry the event header, and the body is an object with an object_kind
eventWellFormed ==
    /\ manager.config.form # "undefined"
    /\ manager.headers.carries
    /\ manager.headers.form = IF manager.build = "index.js" THEN "Headers" ELSE "plain"
    /\ manager.restBody.form = "object"
    /\ manager.restBody.object_kind # ""

\* C36: a note event whose author is the bot username of the policy file
\* leads to no call of handleInput, no load of a resource and no action;
\* executeNoteHook returns for it without having evaluated a hook.
C36_BotNoteTriggersNothing ==
    (/\ eventHandled
     /\ manager.restBody.form = "object"
     /\ manager.restBody.event_type = "note"
     /\ manager.restBody.username = manager.config.bot_username) =>
        /\ manager.effects = <<>>
        /\ (eventWellFormed /\ manager.build = "index.js") => manager.status = "returned"

\* C36 witness: the bot's own note holds the command of a note hook with
\* actions, on an issue, and the call returned without a call made
C36_Witness ==
    /\ manager.status = "returned" /\ manager.build = "index.js"
    /\ eventWellFormed
    /\ manager.restBody.event_type = "note"
    /\ manager.restBody.username = manager.config.bot_username
    /\ manager.restBody.note = <<"@">> \o strBot \o <<" ">> \o strTo
    /\ manager.restBody.target = "issue"
    /\ manager.config.hooks = <<Hook("note", TRUE, strTo)>>
    /\ manager.effects = <<>>

\* ---- C38 ----
\* C38: handleEvent raises, before any hook is looked at, a resource loaded
\* or an action executed, when the configuration is not loaded, when the
\* headers carry no event header, or when the body has no object_kind; for
\* a well-formed event of a type other than issue, merge_request and note
\* it returns, again without a load or an action.
C38_MalformedEventRunsNothing ==
    eventHandled =>
        /\ (\/ manager.config.form = "undefined"
            \/ manager.headers.form \in {"undefined", "string"}
            \/ ~manager.headers.carries
            \/ manager.restBody.form # "object"
            \/ manager.restBody.object_kind = "") =>
               manager.status = "threw" /\ manager.effects = <<>>
        /\ (/\ eventWellFormed
            /\ manager.restBody.event_type \notin {"issue", "merge_request", "note"}) =>
               manager.status = "returned" /\ manager.effects = <<>>

\* C38 witness: a well-formed push event has been handled by a manager
\* whose policy file holds a note hook and a push hook
C38_Witness ==
    /\ manager.status = "returned" /\ manager.build = "index.js"
    /\ eventWellFormed
    /\ manager.restBody.event_type = "push"
    /\ manager.config.hooks = <<Hook("note", TRUE, strTo), Hook("push", FALSE, <<>>)>>
    /\ manager.effects = <<>>

\* ---- C37 ----
\* C37: a call of executeHookActions never ends by raising; a raise of an
\* action function is caught in the pass of its key and the loop goes on to
\* the next key, so a call that has returned has made one pass for every key
\* of the hook's action map, in key order, and has called the action
\* function in every pass whose key has a case for the resource type.
C37_HookActionFailureIsContained ==
    hookCall.status # "idle" =>
        /\ hookCall.status \in {"running", "returned"}
        /\ hookCall.idx = Len(hookCall.trace) + 1
        /\ hookCall.status = "running" => hookCall.idx <= Len(hookCall.actions)
        /\ hookCall.status = "returned" => Len(hookCall.trace) = Len(hookCall.actions)
        /\ \A i \in 1..Len(hookCall.trace) :
               LET kind == hookCall.actions[i][1]
               IN /\ hookCall.trace[i].action = kind
                  /\ hookCall.trace[i].called <=>
                         /\ kind \in {"labels", "remove_labels", "status", "assignee",
                                       "reviewer", "merge", "mention", "comment", "move"}
                         /\ kind \in {"reviewer", "merge"} =>
                                hookCall.resourceType = "merge_request"
                         /\ kind = "move" => hookCall.resourceType = "issue"

\* C37 witness: the first action of a hook raised and was caught, and the
\* second action of the map was called after it; the call returned
C37_Witness ==
    /\ hookCall.status = "returned"
    /\ Len(hookCall.trace) = 2
    /\ hookCall.trace[1].caught
    /\ hookCall.trace[2].called

\* the variable groups added after the CommandFramework
InitMore ==
    /\ InitTok /\ InitRun /\ InitComment /\ InitHook /\ InitProject /\ InitSummary
    /\ InitCache /\ InitManager

\* ------------------------------------------------------------- specifications
\* applyLimits called once on each input
InitSpecLimits == InitLimits /\ InitCond /\ InitExec /\ InitPair /\ InitCmd /\ InitMore

SpecLimits == InitSpecLimits /\ [][NextLimits]_vars

\* the PolicyEngine: registrations and calls of its evaluators
InitSpecCond == InitCond /\ IdleLimits /\ InitExec /\ InitPair /\ InitCmd /\ InitMore

SpecCond == InitSpecCond /\ [][NextCond]_vars

\* the ActionExecutor: one call of execute, of processRule or of
\* executeSummary, its awaits interleaved as steps
InitSpecExec == InitExec /\ IdleLimits /\ InitCond /\ InitPair /\ InitCmd /\ InitMore

SpecExec == InitSpecExec /\ [][NextExec]_vars

\* a dry run and a live run of the same call of execute, step by step
InitSpecPair == InitPair /\ IdleLimits /\ InitCond /\ InitExec /\ InitCmd /\ InitMore

SpecPair == InitSpecPair /\ [][NextPair]_vars

\* the CommandFramework: one object is constructed, then match and
\* handleInput are called on it
InitSpecCmd == InitCmd /\ IdleLimits /\ InitCond /\ InitExec /\ InitPair /\ InitMore
SpecCmd == InitSpecCmd /\ [][NextCmd]_vars

\* two CommandFramework objects built from one pattern, and calls on the first
InitSpecTok == IdleLimits /\ InitCond /\ InitExec /\ InitPair /\ InitCmd /\ InitMore
SpecTok == InitSpecTok /\ [][NextTok]_vars

\* one call of processResourceType, rule after rule
InitSpecRun == IdleLimits /\ InitCond /\ InitExec /\ InitPair /\ InitCmd /\ InitMore
SpecRun == InitSpecRun /\ [][NextRun]_vars

InitSpecComment == IdleLimits /\ InitCond /\ InitExec /\ InitPair /\ InitCmd /\ InitMore
SpecComment == InitSpecComment /\ [][NextComment]_vars

InitSpecHook == IdleLimits /\ InitCond /\ InitExec /\ InitPair /\ InitCmd /\ InitMore
SpecHook == InitSpecHook /\ [][NextHook]_vars

InitSpecProject == IdleLimits /\ InitCond /\ InitExec /\ InitPair /\ InitCmd /\ InitMore
SpecProject == InitSpecProject /\ [][NextProject]_vars

InitSpecSummary == IdleLimits /\ InitCond /\ InitExec /\ InitPair /\ InitCmd /\ InitMore
SpecSummary == InitSpecSummary /\ [][NextSummary]_vars

InitSpecCache == IdleLimits /\ InitCond /\ InitExec /\ InitPair /\ InitCmd /\ InitMore
SpecCache == InitSpecCache /\ [][NextCache]_vars

InitSpecManager == IdleLimits /\ InitCond /\ InitExec /\ InitPair /\ InitCmd /\ InitMore
SpecManager == InitSpecManager /\ [][NextManager]_vars

====
